---------------------------- MODULE Spec2Model ----------------------------
(***************************************************************************)
(* FIT codec scripts of the repository: the CRC routines, the encoders     *)
(* (create_comprehensive_fit, add_activity_message, fix_crc, FITWriter,    *)
(* FITFileWriter), the validators and the record-stream parsers            *)
(* (manual_fit_parser.parse_file, fit_summary_fixed, analyze_file,         *)
(* analyze_messages).  Bytes are integers 0..255, a file is a sequence of  *)
(* bytes, and Python's 0-based indexing is kept through At and Slice.      *)
(***************************************************************************)
EXTENDS Integers, Sequences, FiniteSets, TLC

VARIABLES
    prog,        \* which script is running, "idle" before one is started
    file_bytes,  \* the bytes of the file being read, or of the file written
    run,         \* the running script's local variables (a record)
    twin,        \* parse_file's locals on the same file with a corrupted trailer
    twin_bytes,  \* that corrupted file
    records,     \* FITWriter.records (a list of pairs) / FITFileWriter.data_buffer (bytes)
    crc_data     \* the byte string handed to the CRC routines

vars == <<prog, file_bytes, run, twin, twin_bytes, records, crc_data>>

(***************************************************************************)
(* Python sequence primitives                                              *)
(***************************************************************************)
Min(a, b) == IF a < b THEN a ELSE b

Max(a, b) == IF a > b THEN a ELSE b

\* s[i] for 0 <= i < len(s); the callers guard the IndexError case
At(s, i) == s[i + 1]

\* s[a:b] for a, b >= 0: out-of-range bounds are clamped, never an error
Slice(s, a, b) ==
    LET lo == Min(a, Len(s))
        hi == Min(b, Len(s))
    IN  IF hi <= lo THEN <<>> ELSE SubSeq(s, lo + 1, hi)

\* s[:-2]
DropLast2(s) == Slice(s, 0, Max(Len(s) - 2, 0))

\* s[-2:]
Last2(s) == Slice(s, Max(Len(s) - 2, 0), Len(s))

\* s[a:b] = r on a list or bytearray (the length changes when the slice is short)
SliceAssign(s, a, b, r) ==
    LET lo == Min(a, Len(s))
        hi == Max(lo, Min(b, Len(s)))
    IN  Slice(s, 0, lo) \o r \o Slice(s, hi, Len(s))

RECURSIVE Sum(_)
Sum(s) == IF s = <<>> THEN 0 ELSE Head(s) + Sum(Tail(s))

RECURSIVE Repeat(_, _)
Repeat(b, n) == IF n <= 0 THEN <<>> ELSE <<b>> \o Repeat(b, n - 1)

(***************************************************************************)
(* Bit operations on non-negative integers                                 *)
(***************************************************************************)
RECURSIVE BitXor(_, _)
BitXor(a, b) ==
    IF a = 0 THEN b
    ELSE IF b = 0 THEN a
    ELSE ((a + b) % 2) + 2 * BitXor(a \div 2, b \div 2)

\* struct.pack('<H', v) / int.to_bytes(2, 'little')
LE16(v) == <<v % 256, (v \div 256) % 256>>

\* struct.pack('<I', v) / int.to_bytes(4, 'little')
LE32(v) == <<v % 256, (v \div 256) % 256, (v \div 65536) % 256, (v \div 16777216) % 256>>

\* struct.unpack('<H', b) on exactly two bytes
UnpackLE16(b) == b[1] + 256 * b[2]

\* struct.unpack('>H', b) on exactly two bytes
UnpackBE16(b) == 256 * b[1] + b[2]

\* struct.unpack('<I', b) on exactly four bytes
UnpackLE32(b) == b[1] + 256 * b[2] + 65536 * b[3] + 16777216 * b[4]

\* struct.unpack('>I', b) on exactly four bytes
UnpackBE32(b) == 16777216 * b[1] + 65536 * b[2] + 256 * b[3] + b[4]

(***************************************************************************)
(* Python integers wider than 32 bits: <<hi, lo>> stands for               *)
(* hi * 65536 + lo with 0 <= lo < 65536 (hi is negative for a negative     *)
(* number).                                                                *)
(***************************************************************************)
W(n) == <<n \div 65536, n % 65536>>

WAdd(w, n) == <<w[1] + ((w[2] + n) \div 65536), (w[2] + n) % 65536>>

(***************************************************************************)
(* CRC routines                                                            *)
(***************************************************************************)
\* "for byte in data" is a left fold of the loop body over data[lo..hi]; the
\* folds below split the range at Mid, which keeps the bytes in order, and
\* finish the left part (a CRC is never negative) before starting the right
Mid(lo, hi) == (lo + hi) \div 2

crc_table ==
    <<0, 52225, 55297, 5120, 61441, 15360, 10240, 58369,
      40961, 27648, 30720, 46081, 20480, 39937, 34817, 17408>>

\* test_data/garmin_crc_comparison.py
fit_crc_get16(crc, byte) ==
    LET tmp1 == crc_table[(crc % 16) + 1]
        c1   == (crc \div 16) % 4096
        c2   == BitXor(BitXor(c1, tmp1), crc_table[(byte % 16) + 1])
        tmp2 == crc_table[(c2 % 16) + 1]
        c3   == (c2 \div 16) % 4096
    IN  BitXor(BitXor(c3, tmp2), crc_table[((byte \div 16) % 16) + 1])

RECURSIVE cmp_crc_fold(_, _, _, _)
cmp_crc_fold(data, lo, hi, crc) ==
    IF lo > hi THEN crc
    ELSE IF lo = hi THEN fit_crc_get16(crc, data[lo])
    ELSE LET left == cmp_crc_fold(data, lo, Mid(lo, hi), crc)
         IN  IF left < 0 THEN left ELSE cmp_crc_fold(data, Mid(lo, hi) + 1, hi, left)

cmp_garmin_fit_crc(data) == cmp_crc_fold(data, 1, Len(data), 0)

\* the loop body with the second table step taking the low nibble again
gc_crc_byte_low_nibble(crc, byte) ==
    LET tmp1 == crc_table[(crc % 16) + 1]
        c1   == (crc \div 16) % 4096
        c2   == BitXor(BitXor(c1, tmp1), crc_table[(byte % 16) + 1])
        tmp2 == crc_table[(c2 % 16) + 1]
        c3   == (c2 \div 16) % 4096
    IN  BitXor(BitXor(c3, tmp2), crc_table[(byte % 16) + 1])

\* generate_comprehensive.py: the loop body of garmin_fit_crc
gc_crc_byte(crc, byte) ==
    LET tmp1 == crc_table[(crc % 16) + 1]
        c1   == (crc \div 16) % 4096
        c2   == BitXor(BitXor(c1, tmp1), crc_table[(byte % 16) + 1])
        tmp2 == crc_table[(c2 % 16) + 1]
        c3   == (c2 \div 16) % 4096
    IN  BitXor(BitXor(c3, tmp2), crc_table[((byte \div 16) % 16) + 1])

RECURSIVE gc_crc_loop(_, _, _, _)
gc_crc_loop(data, lo, hi, crc) ==
    IF lo > hi THEN crc
    ELSE IF lo = hi THEN gc_crc_byte(crc, data[lo])
    ELSE LET left == gc_crc_loop(data, lo, Mid(lo, hi), crc)
         IN  IF left < 0 THEN left ELSE gc_crc_loop(data, Mid(lo, hi) + 1, hi, left)

gc_garmin_fit_crc(data) == gc_crc_loop(data, 1, Len(data), 0)

\* the loop body with the nibbles taken in the other order, upper first
vf_crc_byte_upper_first(crc, byte) ==
    LET tmp1 == crc_table[(crc % 16) + 1]
        c1   == (crc \div 16) % 4096
        c2   == BitXor(BitXor(c1, tmp1), crc_table[((byte \div 16) % 16) + 1])
        tmp2 == crc_table[(c2 % 16) + 1]
        c3   == (c2 \div 16) % 4096
    IN  BitXor(BitXor(c3, tmp2), crc_table[(byte % 16) + 1])

\* validate_fit_comprehensive.py: the loop body of garmin_fit_crc
vf_crc_byte(crc, byte) ==
    LET tmp1 == crc_table[(crc % 16) + 1]
        c1   == (crc \div 16) % 4096
        c2   == BitXor(BitXor(c1, tmp1), crc_table[(byte % 16) + 1])
        tmp2 == crc_table[(c2 % 16) + 1]
        c3   == (c2 \div 16) % 4096
    IN  BitXor(BitXor(c3, tmp2), crc_table[((byte \div 16) % 16) + 1])

RECURSIVE vf_crc_loop(_, _, _, _)
vf_crc_loop(data, lo, hi, crc) ==
    IF lo > hi THEN crc
    ELSE IF lo = hi THEN vf_crc_byte(crc, data[lo])
    ELSE LET left == vf_crc_loop(data, lo, Mid(lo, hi), crc)
         IN  IF left < 0 THEN left ELSE vf_crc_loop(data, Mid(lo, hi) + 1, hi, left)

vf_garmin_fit_crc(data) == vf_crc_loop(data, 1, Len(data), 0)

\* tools/manual_fit_parser.py: CRC_TABLE (256 entries)
CRC_TABLE ==
    <<0, 4129, 8258, 12387, 16516, 20645, 24774, 28903,
      33032, 37161, 41290, 45419, 49548, 53677, 57806, 61935,
      4657, 528, 12915, 8786, 21173, 17044, 29431, 25302,
      37689, 33560, 45947, 41818, 54205, 50076, 62463, 58334,
      9314, 13379, 1056, 5121, 25830, 29895, 17572, 21637,
      42346, 46411, 34088, 38153, 58862, 62927, 50604, 54669,
      13907, 9842, 5649, 1584, 30423, 26358, 22165, 18100,
      46939, 42874, 38681, 34616, 63455, 59390, 55197, 51132,
      18628, 22757, 26758, 30887, 2112, 6241, 10242, 14371,
      51660, 55789, 59790, 63919, 35144, 39273, 43274, 47403,
      23285, 19156, 31415, 27286, 6769, 2640, 14899, 10770,
      56317, 52188, 64447, 60318, 39801, 35672, 47931, 43802,
      27814, 31879, 19684, 23749, 11298, 15363, 3168, 7233,
      60846, 64911, 52716, 56781, 44330, 48395, 36200, 40265,
      32407, 28342, 24277, 20212, 15891, 11826, 7761, 3696,
      65439, 61374, 57309, 53244, 48923, 44858, 40793, 36728,
      37256, 33193, 45514, 41451, 53516, 49453, 61774, 57711,
      4224, 161, 12482, 8419, 20484, 16421, 28742, 24679,
      33721, 37784, 41979, 46042, 49981, 54044, 58239, 62302,
      689, 4752, 8947, 13010, 16949, 21012, 25207, 29270,
      46570, 42443, 38312, 34185, 62830, 58703, 54572, 50445,
      13538, 9411, 5280, 1153, 29798, 25671, 21540, 17413,
      42971, 47098, 34713, 38840, 59231, 63358, 50973, 55100,
      9939, 14066, 1681, 5808, 26199, 30326, 17941, 22068,
      55628, 51565, 63758, 59695, 39368, 35305, 47498, 43435,
      22596, 18533, 30726, 26663, 6336, 2273, 14466, 10403,
      52093, 56156, 60223, 64286, 35833, 39896, 43963, 48026,
      19061, 23124, 27191, 31254, 2801, 6864, 10931, 14994,
      64814, 60687, 56684, 52557, 48554, 44427, 40424, 36297,
      31782, 27655, 23652, 19525, 15522, 11395, 7392, 3265,
      61215, 65342, 53085, 57212, 44955, 49082, 36825, 40952,
      28183, 32310, 20053, 24180, 11923, 16050, 3793, 7920>>

\* tools/manual_fit_parser.py: get_crc
get_crc_byte(crc, byte) ==
    LET shifted == (crc * 256) % 65536
        idx     == BitXor(shifted \div 256, byte)
    IN  BitXor(shifted, CRC_TABLE[idx + 1]) % 65536

RECURSIVE get_crc_loop(_, _, _, _)
get_crc_loop(data, lo, hi, crc) ==
    IF lo > hi THEN crc
    ELSE IF lo = hi THEN get_crc_byte(crc, data[lo])
    ELSE LET left == get_crc_loop(data, lo, Mid(lo, hi), crc)
         IN  IF left < 0 THEN left ELSE get_crc_loop(data, Mid(lo, hi) + 1, hi, left)

get_crc(data) == get_crc_loop(data, 1, Len(data), 0)

\* tools/add_activity_message.py, tools/fix_crc.py: the inner loop of crc16_ccitt
RECURSIVE ccitt_bits(_, _)
ccitt_bits(crc, n) ==
    IF n = 0 THEN crc
    ELSE ccitt_bits(IF crc >= 32768
                    THEN BitXor((crc * 2) % 65536, 4129)
                    ELSE (crc * 2) % 65536, n - 1)

RECURSIVE ccitt_loop(_, _, _, _)
ccitt_loop(data, lo, hi, crc) ==
    IF lo > hi THEN crc
    ELSE IF lo = hi THEN ccitt_bits(BitXor(crc, (data[lo] * 256) % 65536), 8)
    ELSE LET left == ccitt_loop(data, lo, Mid(lo, hi), crc)
         IN  IF left < 0 THEN left ELSE ccitt_loop(data, Mid(lo, hi) + 1, hi, left)

crc16_ccitt(data) == ccitt_loop(data, 1, Len(data), 0)

(***************************************************************************)
(* generate_comprehensive.py                                               *)
(***************************************************************************)
write_uint16_be(b, v) == b \o <<(v \div 256) % 256, v % 256>>

\* v is a wide integer <<hi, lo>>
write_uint32_be(b, v) ==
    b \o <<(v[1] \div 256) % 256, v[1] % 256, (v[2] \div 256) % 256, v[2] % 256>>

\* v is a wide integer <<hi, lo>>; v < 0 exactly when hi < 0
write_sint32_be(b, v) ==
    IF v[1] < 0 THEN write_uint32_be(b, <<v[1] + 65536, v[2]>>)
    ELSE write_uint32_be(b, v)

\* the timestamp 0x30390000 written by the generator
GcTimestamp == 809041920

\* the latitude 909310272 and the longitude -2967996672 handed to write_sint32_be
GcLatitude == W(909310272)

GcLongitude == <<-45289, 63232>>

\* the 14-byte header with its placeholders (data size 0, header CRC 0)
gc_header ==
    write_uint16_be(
        write_uint32_be(write_uint16_be(<<14, 32>>, 2163), W(0)) \o <<46, 70, 73, 84>>,
        0)

\* FileID definition (LMT=0, GMN=0) and its data message
gc_file_id ==
    LET d0 == write_uint16_be(<<64, 0, 1>>, 0) \o <<4>>
        d1 == d0 \o <<0, 1, 0>> \o <<1, 2, 132>> \o <<2, 2, 132>> \o <<4, 4, 134>>
        m0 == d1 \o <<0, 4>>
        m1 == write_uint16_be(write_uint16_be(m0, 1), 1)
    IN  write_uint32_be(m1, W(GcTimestamp))

\* Record definition (LMT=1, GMN=20)
gc_record_def ==
    write_uint16_be(<<65, 0, 1>>, 20) \o <<6>>
        \o <<253, 4, 134>> \o <<0, 4, 133>> \o <<1, 4, 133>>
        \o <<6, 4, 134>> \o <<7, 2, 132>> \o <<4, 1, 2>>

\* one Record data message without its cadence byte
gc_record_no_cadence(i) ==
    LET r0 == write_uint32_be(<<1>>, W(GcTimestamp + i * 2))
        r1 == write_sint32_be(r0, WAdd(GcLatitude, i * 100))
        r2 == write_sint32_be(r1, WAdd(GcLongitude, i * 100))
        r3 == write_uint32_be(r2, W(100 + i * 10))
    IN  write_uint16_be(r3, 250 + i * 5)

\* the body of "for i in range(10)": one Record data message
gc_record(i) ==
    LET r0 == write_uint32_be(<<1>>, W(GcTimestamp + i * 2))
        r1 == write_sint32_be(r0, WAdd(GcLatitude, i * 100))
        r2 == write_sint32_be(r1, WAdd(GcLongitude, i * 100))
        r3 == write_uint32_be(r2, W(100 + i * 10))
        r4 == write_uint16_be(r3, 250 + i * 5)
    IN  r4 \o <<85 + (i % 10)>>

RECURSIVE gc_records(_, _)
gc_records(i, n) == IF i >= n THEN <<>> ELSE gc_record(i) \o gc_records(i + 1, n)

\* Activity definition (LMT=2, GMN=34) and its data message
gc_activity ==
    LET d0 == write_uint16_be(<<66, 0, 1>>, 34) \o <<3>>
        d1 == d0 \o <<254, 4, 134>> \o <<0, 1, 0>> \o <<1, 1, 2>>
    IN  write_uint32_be(d1 \o <<2>>, W(GcTimestamp)) \o <<0, 1>>

gc_data_msg == gc_file_id \o gc_record_def \o gc_records(0, 10) \o gc_activity

\* header[4:8] = the four bytes of data_size, most significant first
gc_patch_size(header, data_size) ==
    SliceAssign(header, 4, 8,
        <<(data_size \div 16777216) % 256, (data_size \div 65536) % 256,
          (data_size \div 256) % 256, data_size % 256>>)

\* the header CRC stored high byte first
gc_patch_crc_be(header) ==
    LET header_crc == gc_garmin_fit_crc(Slice(header, 0, 12))
    IN  [header EXCEPT ![13] = (header_crc \div 256) % 256, ![14] = header_crc % 256]

\* header[12], header[13] = low, high byte of the header CRC
gc_patch_crc(header) ==
    LET header_crc == gc_garmin_fit_crc(Slice(header, 0, 12))
    IN  [header EXCEPT ![13] = header_crc % 256, ![14] = (header_crc \div 256) % 256]

create_comprehensive_fit ==
    LET header    == gc_patch_crc(gc_patch_size(gc_header, Len(gc_data_msg)))
        full_file == header \o gc_data_msg
        file_crc  == gc_garmin_fit_crc(full_file)
    IN  full_file \o <<file_crc % 256, (file_crc \div 256) % 256>>

(***************************************************************************)
(* Record-stream parsers: the locals of the running parser                 *)
(***************************************************************************)
\* the locals before the header is read; log is the sequence of messages the
\* parser has reported (its print calls and counters), oldest first
NoRun ==
    [status |-> "idle", err |-> "none", header_size |-> 0, data_size |-> 0,
     payload |-> <<>>, pointer |-> 0, definitions |-> <<>>, log |-> <<>>,
     msg_num |-> 0, header_crc |-> "none", file_crc |-> "none"]

\* one reported message: a definition, or a data message resolved through one
Event(kind, lmt, gmn, sizes, at, next) ==
    [kind |-> kind, lmt |-> lmt, gmn |-> gmn, sizes |-> sizes, at |-> at, next |-> next]

\* record_header & 0x0F
LocalType(record_header) == record_header % 16

\* (record_header >> 6) & 1, (record_header & 0x40) != 0
IsDefinition(record_header) == (record_header \div 64) % 2 = 1

\* the field descriptors stored last first
FieldsAtReversed(bytes, first, n) ==
    [i \in 1..n |-> [def_num |-> At(bytes, first + 3 * (n - i)),
                     size    |-> At(bytes, first + 3 * (n - i) + 1),
                     type    |-> At(bytes, first + 3 * (n - i) + 2)]]

\* the 3-byte field descriptors read from index first on, n of them
FieldsAt(bytes, first, n) ==
    [i \in 1..n |-> [def_num |-> At(bytes, first + 3 * (i - 1)),
                     size    |-> At(bytes, first + 3 * (i - 1) + 1),
                     type    |-> At(bytes, first + 3 * (i - 1) + 2)]]

FieldSizes(fields) == [i \in 1..Len(fields) |-> fields[i].size]

(***************************************************************************)
(* tools/manual_fit_parser.py: parse_file                                  *)
(***************************************************************************)
\* 1. Header: the reads that raise on a short or non-ASCII header
pf_header_raises(fb) ==
    \/ Len(fb) < 8
    \/ \E i \in 8..11 : i < Len(fb) /\ At(fb, i) >= 128
    \/ At(fb, 0) = 14 /\ Len(fb) < 14

pf_header(fb) ==
    IF pf_header_raises(fb) THEN [NoRun EXCEPT !.status = "exception"]
    ELSE [NoRun EXCEPT
            !.status      = "loop",
            !.header_size = At(fb, 0),
            !.data_size   = UnpackLE32(Slice(fb, 4, 8)),
            !.pointer     = At(fb, 0),
            !.header_crc  = IF At(fb, 0) # 14 THEN "absent"
                            ELSE IF UnpackLE16(Slice(fb, 12, 14)) = get_crc(Slice(fb, 0, 12))
                                 THEN "OK" ELSE "FAIL"]

\* struct.unpack('<H', file_bytes[pointer + 2:pointer + 4])[0]
pf_global_msg_num(fb, pointer) == UnpackLE16(Slice(fb, pointer + 2, pointer + 4))

\* a registry that keeps the first definition of a local type
pf_define_keep_first(definitions, local_msg_type, definition) ==
    definitions @@ (local_msg_type :> definition)

\* definitions[local_msg_type] = {...}
pf_define(definitions, local_msg_type, definition) ==
    (local_msg_type :> definition) @@ definitions

\* the Definition Message branch; pointer is already past the record header
pf_definition(fb, st, at, pointer, local_msg_type) ==
    IF Len(fb) < pointer + 5 \/ Len(fb) < pointer + 5 + 3 * At(fb, pointer + 4)
    THEN [st EXCEPT !.status = "exception", !.pointer = pointer]
    ELSE LET num_fields     == At(fb, pointer + 4)
             fields         == FieldsAt(fb, pointer + 5, num_fields)
             global_msg_num == pf_global_msg_num(fb, pointer)
             field_pointer  == pointer + 5 + 3 * num_fields
         IN  [st EXCEPT
                !.definitions = pf_define(st.definitions, local_msg_type,
                                    [global_msg_num |-> global_msg_num,
                                     fields         |-> fields,
                                     total_size     |-> Sum(FieldSizes(fields))]),
                !.pointer     = field_pointer,
                !.log         = Append(st.log,
                                    Event("def", local_msg_type, global_msg_num,
                                          FieldSizes(fields), at, field_pointer))]

\* an undefined local type that is reported and skipped instead
pf_undefined_skip(st, pointer) ==
    [st EXCEPT !.err = "undefined_lmt", !.pointer = pointer]

\* an undefined local type after which the loop reads the same header again
pf_undefined_retry(st, pointer) ==
    [st EXCEPT !.err = "undefined_lmt"]

\* the else branch of "if local_msg_type in definitions": print the error, break
pf_undefined(st, pointer) ==
    [st EXCEPT !.status = "footer", !.err = "undefined_lmt", !.pointer = pointer]

\* the Data Message branch; pointer is already past the record header
pf_data(fb, st, at, pointer, local_msg_type) ==
    IF local_msg_type \in DOMAIN st.definitions
    THEN LET definition == st.definitions[local_msg_type]
         IN  [st EXCEPT
                !.pointer = pointer + definition.total_size,
                !.log     = Append(st.log,
                                Event("data", local_msg_type, definition.global_msg_num,
                                      FieldSizes(definition.fields), at,
                                      pointer + definition.total_size))]
    ELSE pf_undefined(st, pointer)

\* one test of the while condition and, when it holds, one pass of the body
pf_iter(fb, st) ==
    IF ~(st.pointer < st.header_size + st.data_size) THEN [st EXCEPT !.status = "footer"]
    ELSE IF st.pointer >= Len(fb) THEN [st EXCEPT !.status = "exception"]
    ELSE LET record_header == At(fb, st.pointer)
         IN  IF IsDefinition(record_header)
             THEN pf_definition(fb, st, st.pointer, st.pointer + 1, LocalType(record_header))
             ELSE pf_data(fb, st, st.pointer, st.pointer + 1, LocalType(record_header))

\* a comparison of the low bytes only
pf_crc_verdict_low_byte(file_crc, calculated_file_crc) ==
    IF file_crc % 256 = calculated_file_crc % 256 THEN "OK" ELSE "FAIL"

\* the comparison printed as OK or FAIL in the footer
pf_crc_verdict(file_crc, calculated_file_crc) ==
    IF file_crc = calculated_file_crc THEN "OK" ELSE "FAIL"

\* 3. File CRC
pf_footer(fb, st) ==
    LET file_crc_bytes == Slice(fb, st.header_size + st.data_size, Len(fb))
    IN  [st EXCEPT
           !.status   = "done",
           !.file_crc = IF Len(file_crc_bytes) = 2
                        THEN pf_crc_verdict(UnpackLE16(file_crc_bytes),
                                 get_crc(Slice(fb, 0, st.header_size + st.data_size)))
                        ELSE "not_found"]

\* parse_file from where st stands to its next step
pf_step(fb, st) ==
    CASE st.status = "loop"   -> pf_iter(fb, st)
      [] st.status = "footer" -> pf_footer(fb, st)
      [] OTHER                -> st

(***************************************************************************)
(* fit_summary_fixed.py: the module-level record loop                      *)
(***************************************************************************)
\* the data size read little-endian instead
fs_data_size_le(data) == UnpackLE32(Slice(data, 4, 8))

\* struct.unpack('>I', header[4:8])[0]
fs_data_size(data) == UnpackBE32(Slice(data, 4, 8))

\* lines 17-26: header, payload and the counters
fs_header(data) ==
    IF Len(data) < 8 THEN [NoRun EXCEPT !.status = "exception"]
    ELSE [NoRun EXCEPT
            !.status      = "loop",
            !.header_size = At(data, 0),
            !.data_size   = fs_data_size(data),
            !.payload     = Slice(data, At(data, 0), At(data, 0) + fs_data_size(data))]

\* message_defs[lmt] = {'gmn': gmn, 'sizes': field_sizes}
fs_define(message_defs, lmt, info) == (lmt :> info) @@ message_defs

\* the definition branch; pos is already past the record header
fs_definition(st, at, pos, lmt) ==
    LET payload == st.payload
    IN  IF pos + 5 > Len(payload) THEN [st EXCEPT !.status = "done", !.pointer = pos]
        ELSE LET gmn        == UnpackBE16(Slice(payload, pos + 2, pos + 4))
                 num_fields == At(payload, pos + 4)
                 \* the field loop breaks once fewer than 3 bytes are left
                 read       == Min(num_fields, (Len(payload) - (pos + 5)) \div 3)
                 sizes      == FieldSizes(FieldsAt(payload, pos + 5, read))
             IN  [st EXCEPT
                    !.definitions = fs_define(st.definitions, lmt,
                                              [gmn |-> gmn, sizes |-> sizes]),
                    !.pointer     = pos + 5 + 3 * read,
                    !.msg_num     = st.msg_num + 1,
                    !.log         = Append(st.log,
                                        Event("def", lmt, gmn, sizes, at, pos + 5 + 3 * read))]

\* the else branch of "if msg_info": print "Unknown LMT", break
fs_undefined(st, pos) ==
    [st EXCEPT !.status = "done", !.err = "undefined_lmt", !.pointer = pos]

\* the data branch; pos is already past the record header
fs_data(st, at, pos, lmt) ==
    IF lmt \in DOMAIN st.definitions
    THEN LET msg_info  == st.definitions[lmt]
             data_size == Sum(msg_info.sizes)
         IN  [st EXCEPT
                !.data_size = data_size,
                !.pointer   = pos + data_size,
                !.msg_num   = st.msg_num + 1,
                !.log       = Append(st.log,
                                  Event("data", lmt, msg_info.gmn, msg_info.sizes, at,
                                        pos + data_size))]
    ELSE fs_undefined(st, pos)

\* one test of "while pos < len(payload)" and, when it holds, one pass of the body
fs_iter(st) ==
    IF ~(st.pointer < Len(st.payload)) THEN [st EXCEPT !.status = "done"]
    ELSE LET record_header == At(st.payload, st.pointer)
         IN  IF IsDefinition(record_header)
             THEN fs_definition(st, st.pointer, st.pointer + 1, LocalType(record_header))
             ELSE fs_data(st, st.pointer, st.pointer + 1, LocalType(record_header))

(***************************************************************************)
(* analyze_strava_structure.py: analyze_file                               *)
(***************************************************************************)
\* the message cap in the while condition
AsMaxMessages == 100

as_header(data) ==
    IF Len(data) < 14 THEN [NoRun EXCEPT !.status = "done"]
    ELSE [NoRun EXCEPT
            !.status      = "loop",
            !.header_size = At(data, 0),
            !.data_size   = UnpackBE32(Slice(data, 4, 8)),
            !.pointer     = At(data, 0)]

\* "[Undefined LMT]": offset += 1, msg_num += 1, continue
as_undefined(st) ==
    [st EXCEPT !.err = "undefined_lmt", !.pointer = st.pointer + 1,
               !.msg_num = st.msg_num + 1]

as_iter(data, st) ==
    LET offset == st.pointer
    IN  IF ~(offset < Len(data) - 2 /\ st.msg_num < AsMaxMessages)
        THEN [st EXCEPT !.status = "done"]
        ELSE
        LET record_header == At(data, offset)
            lmt           == LocalType(record_header)
        IN  IF IsDefinition(record_header)
            THEN IF offset + 6 > Len(data) THEN [st EXCEPT !.status = "done"]
                 ELSE LET gmn        == UnpackBE16(Slice(data, offset + 3, offset + 5))
                          num_fields == At(data, offset + 5)
                          read       == Min(num_fields, (Len(data) - (offset + 6)) \div 3)
                          field_info == FieldsAt(data, offset + 6, read)
                      IN  [st EXCEPT
                             !.definitions = (lmt :> [gmn |-> gmn, fields |-> field_info,
                                                      num_fields |-> num_fields])
                                             @@ st.definitions,
                             !.pointer     = offset + 6 + num_fields * 3,
                             !.msg_num     = st.msg_num + 1,
                             !.log         = Append(st.log,
                                                 Event("def", lmt, gmn, FieldSizes(field_info),
                                                       offset, offset + 6 + num_fields * 3))]
            ELSE IF lmt \notin DOMAIN st.definitions THEN as_undefined(st)
                 ELSE LET defn     == st.definitions[lmt]
                          msg_size == Sum(FieldSizes(defn.fields))
                      IN  IF offset + 1 + msg_size > Len(data)
                          THEN [st EXCEPT !.status = "done"]
                          ELSE [st EXCEPT
                                  !.pointer = offset + 1 + msg_size,
                                  !.msg_num = st.msg_num + 1,
                                  !.log     = Append(st.log,
                                                  Event("data", lmt, defn.gmn,
                                                        FieldSizes(defn.fields), offset,
                                                        offset + 1 + msg_size))]

(***************************************************************************)
(* deep_dive.py: analyze_messages                                          *)
(***************************************************************************)
\* max_msgs=20
DdMaxMsgs == 20

\* "Skip header": offset = 14, whatever the header says
dd_header(data) == [NoRun EXCEPT !.status = "loop", !.header_size = 14, !.pointer = 14]

\* "[UNDEFINED]": offset += 1, then msg_num += 1 at the end of the body
dd_undefined(st) ==
    [st EXCEPT !.err = "undefined_lmt", !.pointer = st.pointer + 1,
               !.msg_num = st.msg_num + 1]

dd_iter(data, st) ==
    LET offset == st.pointer
    IN  IF ~(offset < Len(data) - 2 /\ st.msg_num < DdMaxMsgs)
        THEN [st EXCEPT !.status = IF Len(data) < 2 THEN "exception" ELSE "done"]
        ELSE
        LET record_header == At(data, offset)
            lmt           == LocalType(record_header)
        IN  IF IsDefinition(record_header)
            THEN IF Len(data) < offset + 6 \/ Len(data) < offset + 6 + 3 * At(data, offset + 5)
                 THEN [st EXCEPT !.status = "exception"]
                 ELSE LET gmn        == UnpackBE16(Slice(data, offset + 3, offset + 5))
                          num_fields == At(data, offset + 5)
                          field_info == FieldsAt(data, offset + 6, num_fields)
                      IN  [st EXCEPT
                             !.definitions = (lmt :> [gmn |-> gmn, fields |-> field_info])
                                             @@ st.definitions,
                             !.pointer     = offset + 6 + num_fields * 3,
                             !.msg_num     = st.msg_num + 1,
                             !.log         = Append(st.log,
                                                 Event("def", lmt, gmn, FieldSizes(field_info),
                                                       offset, offset + 6 + num_fields * 3))]
            ELSE IF lmt \in DOMAIN st.definitions
                 THEN LET field_info == st.definitions[lmt].fields
                          data_size  == Sum(FieldSizes(field_info))
                      IN  [st EXCEPT
                             !.pointer = offset + 1 + data_size,
                             !.msg_num = st.msg_num + 1,
                             !.log     = Append(st.log,
                                             Event("data", lmt, st.definitions[lmt].gmn,
                                                   FieldSizes(field_info), offset,
                                                   offset + 1 + data_size))]
                 ELSE dd_undefined(st)

(***************************************************************************)
(* analyze_messages.py: analyze_messages                                   *)
(***************************************************************************)
\* max_messages=5
AmMaxMessages == 5

am_header(data) ==
    IF Len(data) < 14 THEN [NoRun EXCEPT !.status = "done"]
    ELSE [NoRun EXCEPT
            !.status      = "loop",
            !.header_size = At(data, 0),
            !.data_size   = UnpackBE32(Slice(data, 4, 8)),
            !.pointer     = 14]

\* "ERROR: LMT not defined!": offset += 1, then msg_num += 1 at the end of the body
am_undefined(st) ==
    [st EXCEPT !.err = "undefined_lmt", !.pointer = st.pointer + 1,
               !.msg_num = st.msg_num + 1]

am_iter(data, st) ==
    LET offset == st.pointer
    IN  IF ~(offset < Min(14 + st.data_size, Len(data) - 2) /\ st.msg_num < AmMaxMessages)
        THEN [st EXCEPT !.status = "done"]
        ELSE
        LET record_header == At(data, offset)
            lmt           == LocalType(record_header)
        IN  IF IsDefinition(record_header)
            THEN IF offset + 6 > Len(data) THEN [st EXCEPT !.status = "done"]
                 ELSE IF Len(data) < offset + 6 + 3 * At(data, offset + 5)
                 THEN \* the field loop raises IndexError after the entry was stored
                      [st EXCEPT !.status = "exception"]
                 ELSE LET gmn        == UnpackBE16(Slice(data, offset + 3, offset + 5))
                          num_fields == At(data, offset + 5)
                          fields     == FieldsAt(data, offset + 6, num_fields)
                      IN  [st EXCEPT
                             !.definitions = (lmt :> [gmn |-> gmn, num_fields |-> num_fields,
                                                      fields |-> fields,
                                                      total_size |-> Sum(FieldSizes(fields))])
                                             @@ st.definitions,
                             !.pointer     = offset + 6 + num_fields * 3,
                             !.msg_num     = st.msg_num + 1,
                             !.log         = Append(st.log,
                                                 Event("def", lmt, gmn, FieldSizes(fields),
                                                       offset, offset + 6 + num_fields * 3))]
            ELSE IF lmt \in DOMAIN st.definitions
                 THEN LET msg_def == st.definitions[lmt]
                      IN  [st EXCEPT
                             !.pointer = offset + 1 + msg_def.total_size,
                             !.msg_num = st.msg_num + 1,
                             !.log     = Append(st.log,
                                             Event("data", lmt, msg_def.gmn,
                                                   FieldSizes(msg_def.fields), offset,
                                                   offset + 1 + msg_def.total_size))]
                 ELSE am_undefined(st)

(***************************************************************************)
(* The files the parsers are run on                                        *)
(***************************************************************************)
\* how many messages a generated input stream holds at most
MaxChunks == 3

\* Definition Message: record header 0x40 | lmt, reserved, architecture, the
\* two global-message-number bytes, the field count, the field descriptors
DefinitionBytes(lmt, architecture, gmn_bytes, fields) ==
    <<64 + lmt, 0, architecture>> \o gmn_bytes \o <<Len(fields) \div 3>> \o fields

\* Data Message: record header lmt, then n payload bytes
DataBytes(lmt, n) == <<lmt>> \o Repeat(7, n)

\* the messages an input stream is built from: two layouts for local type 0
\* (one field of 1 byte; two fields of 1 byte each), one for local type 1,
\* data messages of local types 0 and 1, and a header byte with bit 7 set
Chunks ==
    { DefinitionBytes(0, 0, <<0, 20>>, <<253, 1, 2>>),
      DefinitionBytes(0, 1, <<1, 0>>, <<0, 1, 0, 1, 1, 2>>),
      DefinitionBytes(1, 0, <<0, 20>>, <<253, 1, 2>>),
      DataBytes(0, 1), DataBytes(0, 2), DataBytes(1, 1),
      <<129>> }

RECURSIVE Streams(_)
Streams(n) ==
    IF n = 0 THEN {<<>>}
    ELSE LET shorter == Streams(n - 1)
         IN  shorter \cup {s \o c : s \in shorter, c \in Chunks}

\* a 14-byte header, the stream and a trailer; the data size is stored
\* little-endian ("LE") or big-endian ("BE"), both CRCs as get_crc computes them
InputFile(stream, endian) ==
    LET size   == IF endian = "LE" THEN LE32(Len(stream))
                  ELSE <<0, 0, 0, Len(stream)>>
        head12 == <<14, 32>> \o LE16(2163) \o size \o <<46, 70, 73, 84>>
        head   == head12 \o LE16(get_crc(head12))
    IN  head \o stream \o LE16(get_crc(head \o stream))

\* a file whose record headers have bits 4 and 5 set: a definition under header
\* 0x7F with fields of 4 and 1 bytes, one under 0x40, a data message under 0x3F
WideHeaderFile ==
    InputFile(<<127, 0, 0, 0, 20, 2, 253, 4, 134, 0, 1, 2>>
                  \o DefinitionBytes(0, 0, <<0, 20>>, <<253, 1, 2>>)
                  \o <<63, 7, 7, 7, 7, 7>>, "LE")

InputFiles ==
    {InputFile(s, e) : s \in Streams(MaxChunks), e \in {"LE", "BE"}}
        \cup {create_comprehensive_fit, WideHeaderFile}

\* the file with its last byte changed by delta
Corrupt(fb, delta) == [fb EXCEPT ![Len(fb)] = (fb[Len(fb)] + delta) % 256]

CorruptDeltas == {1, 255}

(***************************************************************************)
(* Spec: the parsers, each run on a file                                   *)
(***************************************************************************)
Init ==
    /\ prog = "idle"
    /\ file_bytes \in InputFiles
    /\ run = NoRun
    /\ twin = NoRun
    /\ twin_bytes = <<>>
    /\ records = <<>>
    /\ crc_data = <<>>

\* parse_file(file_path), and parse_file on the file with a corrupted last byte
StartParseFile ==
    /\ prog = "idle"
    /\ \E delta \in CorruptDeltas :
          /\ twin_bytes' = Corrupt(file_bytes, delta)
          /\ twin' = pf_header(Corrupt(file_bytes, delta))
    /\ prog' = "manual"
    /\ run' = pf_header(file_bytes)
    /\ UNCHANGED <<file_bytes, records, crc_data>>

\* both runs of parse_file take their next step
ParseFileStep ==
    /\ prog = "manual"
    /\ run.status \in {"loop", "footer"} \/ twin.status \in {"loop", "footer"}
    /\ run' = pf_step(file_bytes, run)
    /\ twin' = pf_step(twin_bytes, twin)
    /\ UNCHANGED <<prog, file_bytes, twin_bytes, records, crc_data>>

StartSummary ==
    /\ prog = "idle"
    /\ prog' = "summary"
    /\ run' = fs_header(file_bytes)
    /\ UNCHANGED <<file_bytes, twin, twin_bytes, records, crc_data>>

SummaryIter ==
    /\ prog = "summary"
    /\ run.status = "loop"
    /\ run' = fs_iter(run)
    /\ UNCHANGED <<prog, file_bytes, twin, twin_bytes, records, crc_data>>

StartAnalyzeFile ==
    /\ prog = "idle"
    /\ prog' = "analyze_file"
    /\ run' = as_header(file_bytes)
    /\ UNCHANGED <<file_bytes, twin, twin_bytes, records, crc_data>>

AnalyzeFileIter ==
    /\ prog = "analyze_file"
    /\ run.status = "loop"
    /\ run' = as_iter(file_bytes, run)
    /\ UNCHANGED <<prog, file_bytes, twin, twin_bytes, records, crc_data>>

StartDeepDive ==
    /\ prog = "idle"
    /\ prog' = "deep_dive"
    /\ run' = dd_header(file_bytes)
    /\ UNCHANGED <<file_bytes, twin, twin_bytes, records, crc_data>>

DeepDiveIter ==
    /\ prog = "deep_dive"
    /\ run.status = "loop"
    /\ run' = dd_iter(file_bytes, run)
    /\ UNCHANGED <<prog, file_bytes, twin, twin_bytes, records, crc_data>>

StartAnalyzeMessages ==
    /\ prog = "idle"
    /\ prog' = "analyze_messages"
    /\ run' = am_header(file_bytes)
    /\ UNCHANGED <<file_bytes, twin, twin_bytes, records, crc_data>>

AnalyzeMessagesIter ==
    /\ prog = "analyze_messages"
    /\ run.status = "loop"
    /\ run' = am_iter(file_bytes, run)
    /\ UNCHANGED <<prog, file_bytes, twin, twin_bytes, records, crc_data>>

Next ==
    \/ StartParseFile
    \/ ParseFileStep
    \/ StartSummary
    \/ SummaryIter
    \/ StartAnalyzeFile
    \/ AnalyzeFileIter
    \/ StartDeepDive
    \/ DeepDiveIter
    \/ StartAnalyzeMessages
    \/ AnalyzeMessagesIter

Spec == Init /\ [][Next]_vars

(***************************************************************************)
(* Claims about the parsers (checked under Spec)                           *)
(***************************************************************************)
\* the messages of a log, each as <<kind, local type, global number, bytes taken>>
Messages(log) ==
    [i \in 1..Len(log) |-> <<log[i].kind, log[i].lmt, log[i].gmn, log[i].next - log[i].at>>]

\* what create_comprehensive_fit encodes: FileId, 10 Records, Activity
EncodedMessages ==
    <<<<"def", 0, 0, 18>>, <<"data", 0, 0, 10>>, <<"def", 1, 20, 24>>>>
        \o [i \in 1..10 |-> <<"data", 1, 20, 20>>]
        \o <<<<"def", 2, 34, 15>>, <<"data", 2, 34, 7>>>>

\* every message starts where the one before it ended, the first at `first`
Contiguous(log, first) ==
    \A i \in 1..Len(log) : log[i].at = IF i = 1 THEN first ELSE log[i - 1].next

\* C1: the fit_summary_fixed record loop, run on the bytes returned by
\* create_comprehensive_fit, ends having decoded exactly the encoded messages in
\* order (definition 0/0, 1 FileId, definition 1/20, 10 Records, definition
\* 2/34, 1 Activity), each data message taking the bytes its definition gives
\* it, with the cursor exactly at the end of the data section.
C1_SummaryDecodesComprehensive ==
    (prog = "summary" /\ file_bytes = create_comprehensive_fit /\ run.status = "done")
        => /\ run.err = "none"
           /\ Messages(run.log) = EncodedMessages
           /\ Contiguous(run.log, 0)
           /\ Len(run.payload) = Len(gc_data_msg)
           /\ run.pointer = Len(run.payload)

C1_Witness ==
    /\ prog = "summary"
    /\ file_bytes = create_comprehensive_fit
    /\ run.status = "done"
    /\ Len(run.log) = 15

\* the definitions for the local type of log[i] that were reported before it
DefsBefore(log, i) ==
    {j \in 1..(i - 1) : log[j].kind = "def" /\ log[j].lmt = log[i].lmt}

Latest(S) == CHOOSE j \in S : \A k \in S : k <= j

\* C2: in parse_file and in the fit_summary_fixed loop every data message is
\* attributed and sized (global message number, field sizes, bytes consumed) by
\* the most recent definition for its local type that precedes it in the stream.
C2_DataUsesLatestDefinition ==
    prog \in {"manual", "summary"} =>
        \A i \in 1..Len(run.log) :
            run.log[i].kind = "data" =>
                /\ DefsBefore(run.log, i) # {}
                /\ LET d == run.log[Latest(DefsBefore(run.log, i))]
                   IN  /\ run.log[i].gmn = d.gmn
                       /\ run.log[i].sizes = d.sizes
                       /\ run.log[i].next = run.log[i].at + 1 + Sum(d.sizes)

\* a data message read after its local type was defined twice, with two layouts
C2_Witness ==
    /\ prog \in {"manual", "summary"}
    /\ \E i \in 1..Len(run.log) :
          /\ run.log[i].kind = "data"
          /\ \E j, k \in DefsBefore(run.log, i) :
                j < k /\ run.log[j].sizes # run.log[k].sizes

\* C3: in parse_file and in the fit_summary_fixed loop the step that meets a
\* data header with an undefined local type leaves the registry and the
\* reported messages unchanged and leaves the loop; from then on the cursor,
\* the registry and the reported messages never change again.
C3_UndefinedLocalTypeStops ==
    [][(prog' \in {"manual", "summary"} /\ run'.err = "undefined_lmt")
          => /\ run'.definitions = run.definitions
             /\ run'.log = run.log
             /\ run'.status \in {"footer", "done"}
             /\ run.err = "undefined_lmt" => run'.pointer = run.pointer]_vars

\* parsing stopped at an undefined local type with bytes of the stream left
C3_Witness ==
    /\ prog \in {"manual", "summary"}
    /\ run.err = "undefined_lmt"
    /\ run.status = "done"
    /\ Len(run.log) > 0
    /\ run.pointer + 2 < Len(file_bytes)

\* C7: when parse_file's messages end exactly at header_size + data_size and
\* the stored file CRC equals the one it computes, parse_file on the same file
\* with only the last trailer byte changed reports the same definitions and
\* data messages and reports the file CRC as FAIL.
C7_CorruptTrailerSameMessages ==
    (/\ prog = "manual"
     /\ run.status = "done"
     /\ run.err = "none"
     /\ run.pointer = run.header_size + run.data_size
     /\ run.file_crc = "OK")
        => /\ twin.status = "done"
           /\ twin.log = run.log
           /\ twin.definitions = run.definitions
           /\ twin.file_crc = "FAIL"

C7_Witness ==
    /\ prog = "manual"
    /\ run.status = "done"
    /\ run.err = "none"
    /\ run.pointer = run.header_size + run.data_size
    /\ run.file_crc = "OK"
    /\ Len(run.log) >= 2
    /\ twin.file_crc = "FAIL"
    /\ twin_bytes # file_bytes

\* C8 as claimed: parse_file, run on the bytes returned by
\* create_comprehensive_fit, finishes at the file CRC without error having
\* recovered the encoder's data size, the global message numbers 0, 20 and 34
\* for local types 0, 1 and 2, and 1, 10 and 1 data messages.
C8_ManualDecodesComprehensive ==
    (prog = "manual" /\ file_bytes = create_comprehensive_fit
        /\ run.status \in {"done", "exception"})
        => /\ run.status = "done"
           /\ run.err = "none"
           /\ run.data_size = Len(gc_data_msg)
           /\ Messages(run.log) = EncodedMessages

Analyzers == {"analyze_file", "deep_dive", "analyze_messages"}

\* C9 as claimed: in analyze_file and the two analyze_messages, once a data
\* header with an undefined local type has been met no further byte is read as
\* a record header and no further message is parsed or counted.
C9_AnalyzersStopAtUndefined ==
    [][(prog \in Analyzers /\ run.err = "undefined_lmt")
          => /\ run'.pointer = run.pointer
             /\ run'.msg_num = run.msg_num
             /\ run'.log = run.log]_vars

(***************************************************************************)
(* SpecCrc: the three garmin_fit_crc implementations on one byte string    *)
(***************************************************************************)
\* the longest byte string built from CrcSample
MaxCrcLen == 3

\* bytes with equal and unequal nibbles, and the extremes
CrcSample == {0, 1, 16, 128, 255}

RECURSIVE CrcStrings(_)
CrcStrings(n) ==
    IF n = 0 THEN {<<>>}
    ELSE LET shorter == CrcStrings(n - 1)
         IN  shorter \cup {Append(s, b) : s \in shorter, b \in CrcSample}

\* every single byte, the short strings, and the two ranges the encoder and
\* the validator hand to garmin_fit_crc: header bytes 0-11, the file less its trailer
CrcInputs ==
    {<<b>> : b \in 0..255} \cup CrcStrings(MaxCrcLen)
        \cup {Slice(create_comprehensive_fit, 0, 12), DropLast2(create_comprehensive_fit)}

\* no implementation has been called yet
NoCrc == [gc |-> -1, vf |-> -1, cmp |-> -1]

\* the values a byte is changed to: each single-bit flip, and the sample bytes
ByteChanges(b) == ({BitXor(b, 2^k) : k \in 0..7} \cup CrcSample) \ {b}

\* the positions of data that are changed: all of them in a short string, the
\* first, a middle and the last byte of a long one
ChangePositions(data) ==
    IF Len(data) <= 12 THEN 1..Len(data) ELSE {1, Mid(1, Len(data)), Len(data)}

\* the byte strings of the same length that differ from data in exactly one position
SingleByteChanges(data) ==
    UNION {{[data EXCEPT ![i] = b] : b \in ByteChanges(data[i])} : i \in ChangePositions(data)}

\* one byte string for the three routines ("crc"), or a byte string and a
\* single-byte change of it for the routine under comparison ("crc_pair")
InitCrc ==
    /\ crc_data \in CrcInputs
    /\ \/ prog = "crc" /\ twin_bytes = <<>>
       \/ prog = "crc_pair" /\ twin_bytes \in SingleByteChanges(crc_data)
    /\ run = NoCrc
    /\ file_bytes = <<>>
    /\ twin = NoCrc
    /\ records = <<>>

\* generate_comprehensive.garmin_fit_crc(crc_data)
CallGenerateCrc ==
    /\ prog = "crc"
    /\ run.gc = -1
    /\ run' = [run EXCEPT !.gc = gc_garmin_fit_crc(crc_data)]
    /\ UNCHANGED <<prog, file_bytes, twin, twin_bytes, records, crc_data>>

\* validate_fit_comprehensive.garmin_fit_crc(crc_data)
CallValidateCrc ==
    /\ prog = "crc"
    /\ run.vf = -1
    /\ run' = [run EXCEPT !.vf = vf_garmin_fit_crc(crc_data)]
    /\ UNCHANGED <<prog, file_bytes, twin, twin_bytes, records, crc_data>>

\* garmin_crc_comparison.garmin_fit_crc(crc_data)
CallComparisonCrc ==
    /\ prog = "crc"
    /\ run.cmp = -1
    /\ run' = [run EXCEPT !.cmp = cmp_garmin_fit_crc(crc_data)]
    /\ UNCHANGED <<prog, file_bytes, twin, twin_bytes, records, crc_data>>

\* generate_comprehensive.garmin_fit_crc on crc_data and on twin_bytes
CallGenerateCrcChanged ==
    /\ prog = "crc_pair"
    /\ run.gc = -1
    /\ run' = [run EXCEPT !.gc = gc_garmin_fit_crc(crc_data)]
    /\ twin' = [twin EXCEPT !.gc = gc_garmin_fit_crc(twin_bytes)]
    /\ UNCHANGED <<prog, file_bytes, twin_bytes, records, crc_data>>

\* garmin_crc_comparison.garmin_fit_crc on crc_data and on twin_bytes
CallComparisonCrcChanged ==
    /\ prog = "crc_pair"
    /\ run.cmp = -1
    /\ run' = [run EXCEPT !.cmp = cmp_garmin_fit_crc(crc_data)]
    /\ twin' = [twin EXCEPT !.cmp = cmp_garmin_fit_crc(twin_bytes)]
    /\ UNCHANGED <<prog, file_bytes, twin_bytes, records, crc_data>>

NextCrc ==
    \/ CallGenerateCrc
    \/ CallValidateCrc
    \/ CallComparisonCrc
    \/ CallGenerateCrcChanged
    \/ CallComparisonCrcChanged

SpecCrc == InitCrc /\ [][NextCrc]_vars

\* one 4-bit step of the table-driven CRC
NibbleStep(crc, nibble) ==
    BitXor(BitXor((crc \div 16) % 4096, crc_table[(crc % 16) + 1]), crc_table[nibble + 1])

\* the nibbles of a byte string in processing order: low then high, byte by byte
Nibbles(data) ==
    [i \in 1..(2 * Len(data)) |->
        IF i % 2 = 1 THEN data[(i + 1) \div 2] % 16 ELSE data[i \div 2] \div 16]

RECURSIVE NibbleFold(_, _, _, _)
NibbleFold(nibbles, lo, hi, crc) ==
    IF lo > hi THEN crc
    ELSE IF lo = hi THEN NibbleStep(crc, nibbles[lo])
    ELSE LET left == NibbleFold(nibbles, lo, Mid(lo, hi), crc)
         IN  IF left < 0 THEN left ELSE NibbleFold(nibbles, Mid(lo, hi) + 1, hi, left)

\* C6: on every byte string the garmin_fit_crc of generate_comprehensive.py and
\* of validate_fit_comprehensive.py return what garmin_crc_comparison's returns,
\* and that value is the fold from 0 of the 16-entry-table step over the
\* nibbles of the bytes in order, each byte's low nibble before its high one.
C6_CrcImplementationsAgree ==
    (prog = "crc" /\ run.cmp # -1)
        => /\ run.cmp = NibbleFold(Nibbles(crc_data), 1, 2 * Len(crc_data), 0)
           /\ run.gc # -1 => run.gc = run.cmp
           /\ run.vf # -1 => run.vf = run.cmp

\* all three have been called on a string of several bytes with unequal nibbles
C6_Witness ==
    /\ prog = "crc"
    /\ run.gc # -1 /\ run.vf # -1 /\ run.cmp # -1
    /\ Len(crc_data) >= 2
    /\ \E i \in 1..Len(crc_data) : crc_data[i] % 16 # crc_data[i] \div 16
    /\ run.cmp # 0

(***************************************************************************)
(* tools/add_activity_message.py                                           *)
(***************************************************************************)
\* write_uint16(data, val) / write_uint32(data, val): the bytes appended
aa_write_uint16(val) == <<val % 256, (val \div 256) % 256>>

aa_write_uint32(val) ==
    <<val % 256, (val \div 256) % 256, (val \div 65536) % 256, (val \div 16777216) % 256>>

\* the activity definition message: local type 6, message 34, four fields,
\* then the byte written by write_uint8(act_def, 0)
aa_act_def ==
    <<70, 0, 0>> \o aa_write_uint16(34) \o <<4>>
        \o <<253, 4, 134>> \o <<1, 4, 134>> \o <<2, 2, 132>> \o <<5, 1, 0>>
        \o <<0>>

\* the activity data message carrying timestamp_to_fit(datetime.utcnow())
aa_act_data(fit_ts) ==
    <<6>> \o aa_write_uint32(fit_ts) \o aa_write_uint32(10000) \o aa_write_uint16(1) \o <<0>>

\* data after "data = data[:-2]" and the two extend calls
aa_extended(input, fit_ts) == DropLast2(input) \o aa_act_def \o aa_act_data(fit_ts)

\* data_size = len(data) - 14
aa_data_size(data) == Len(data) - 14

\* header patches, then final_data = data + file_crc.to_bytes(2, 'little')
aa_final_data(data) ==
    LET sized   == SliceAssign(data, 4, 8, LE32(aa_data_size(data)))
        hdr_crc == crc16_ccitt(Slice(sized, 0, 12))
        patched == SliceAssign(sized, 12, 14, LE16(hdr_crc))
    IN  patched \o LE16(crc16_ccitt(patched))

(***************************************************************************)
(* tools/fix_crc.py                                                        *)
(***************************************************************************)
\* data_size = len(data_no_crc) - 14, counted on the bytes before the trailer
fc_data_size_with_crc(data_no_crc) == Len(data_no_crc) + 2 - 14

\* data_size = len(data_no_crc) - 14
fc_data_size(data_no_crc) == Len(data_no_crc) - 14

\* int.to_bytes(4, 'little') raises OverflowError on a negative data_size
fc_raises(data) == fc_data_size(DropLast2(data)) < 0

\* the patches with the data size written over bytes 0-3
fc_final_data_size_at_0(data) ==
    LET data_no_crc == DropLast2(data)
        sized       == SliceAssign(data_no_crc, 0, 4, LE32(fc_data_size(data_no_crc)))
        hdr_crc     == crc16_ccitt(Slice(sized, 0, 12))
        patched     == SliceAssign(sized, 12, 14, LE16(hdr_crc))
    IN  patched \o LE16(crc16_ccitt(patched))

fc_final_data(data) ==
    LET data_no_crc == DropLast2(data)
        sized       == SliceAssign(data_no_crc, 4, 8, LE32(fc_data_size(data_no_crc)))
        hdr_crc     == crc16_ccitt(Slice(sized, 0, 12))
        patched     == SliceAssign(sized, 12, 14, LE16(hdr_crc))
    IN  patched \o LE16(crc16_ccitt(patched))

(***************************************************************************)
(* validate_fit_comprehensive.py: validate_fit_file                        *)
(***************************************************************************)
\* len(data) != header_size + data_size + 2, data_size read big-endian; a
\* first size byte of 128 or more makes data_size exceed every file length
vf_size_mismatch(data) ==
    \/ At(data, 4) >= 128
    \/ Len(data) # At(data, 0) + UnpackBE32(Slice(data, 4, 8)) + 2

\* the header CRC step; a header_size below 2 leaves nothing to unpack and
\* the struct.error is caught by the except clause
vf_header_crc_ok(data) ==
    LET header_size == At(data, 0)
    IN  /\ header_size >= 2
        /\ UnpackLE16(Slice(data, header_size - 2, header_size))
              = vf_garmin_fit_crc(Slice(data, 0, header_size - 2))

\* the file CRC check left out
vf_file_crc_unchecked(data) == Len(data) >= 2

vf_file_crc_ok(data) == UnpackLE16(Last2(data)) = vf_garmin_fit_crc(DropLast2(data))

\* the return value
validate_fit_file(data) ==
    IF Len(data) < 14 THEN FALSE
    ELSE IF Slice(data, 8, 12) # <<46, 70, 73, 84>> THEN FALSE
    ELSE IF vf_size_mismatch(data) THEN FALSE
    ELSE IF ~vf_header_crc_ok(data) THEN FALSE
    ELSE vf_file_crc_ok(data)

(***************************************************************************)
(* verify_sample_fit.py: validate_fit_file                                 *)
(***************************************************************************)
\* the return value: length, header size, data type and total size are
\* checked; garmin_crc is defined in the file and never called
vs_validate_fit_file(data) ==
    IF Len(data) < 14 THEN FALSE
    ELSE IF At(data, 0) # 14 THEN FALSE
    ELSE IF Slice(data, 8, 12) # <<46, 70, 73, 84>> THEN FALSE
    ELSE IF At(data, 4) >= 128 THEN FALSE
    ELSE Len(data) = At(data, 0) + UnpackBE32(Slice(data, 4, 8)) + 2

(***************************************************************************)
(* tools/generate_strava_fit.py: FITWriter                                 *)
(***************************************************************************)
FIT_HEADER_SIZE == 14

FIT_PROTOCOL_VERSION == 32

FIT_PROFILE_VERSION == 2314

\* _crc16: the inner loop over the 8 bits
RECURSIVE fw_crc16_bits(_, _)
fw_crc16_bits(crc, n) ==
    IF n = 0 THEN crc
    ELSE fw_crc16_bits(IF crc >= 32768
                       THEN BitXor((crc * 2) % 65536, 52225)
                       ELSE (crc * 2) % 65536, n - 1)

\* _crc16: crc = ((crc << 8) ^ byte) & 0xFFFF, then the 8 bits
RECURSIVE fw_crc16_loop(_, _, _, _)
fw_crc16_loop(data, lo, hi, crc) ==
    IF lo > hi THEN crc
    ELSE IF lo = hi THEN fw_crc16_bits(BitXor((crc * 256) % 65536, data[lo]), 8)
    ELSE LET left == fw_crc16_loop(data, lo, Mid(lo, hi), crc)
         IN  IF left < 0 THEN left ELSE fw_crc16_loop(data, Mid(lo, hi) + 1, hi, left)

fw_crc16(data) == fw_crc16_loop(data, 1, Len(data), 0)

\* each add_* below is the (msg_type, data) pair appended to self.records
fw_add_file_id == <<0, <<4>> \o LE32(1) \o LE16(0) \o LE32(12345)>>

fw_add_device_info(timestamp) == <<23, LE32(timestamp) \o LE16(0) \o <<0>>>>

\* r holds the converted arguments: lat_semicircles, lon_semicircles,
\* alt5 = int(altitude * 5), speed100 = int(speed * 100),
\* distance100 = int(distance * 100), cadence = int(cadence), power = int(power)
fw_add_record(timestamp, r) ==
    <<20, LE32(timestamp) \o LE32(r.lat_semicircles) \o LE32(r.lon_semicircles)
            \o LE16(r.alt5 + 500) \o <<255>> \o <<r.cadence>> \o LE16(r.speed100)
            \o LE16(r.power % 65536) \o LE32(r.distance100) \o <<25>>>>

\* struct.pack raises struct.error on a value outside the format's range
fw_add_record_raises(r) ==
    \/ r.alt5 + 500 \notin 0..65535
    \/ r.cadence \notin 0..255
    \/ r.speed100 \notin 0..65535
    \/ r.distance100 < 0

fw_add_event(timestamp, event_type) == <<21, LE32(timestamp) \o <<event_type, 0>>>>

\* t holds the totals passed to add_lap and add_session, already int()
fw_add_lap(timestamp, start_time, t) ==
    <<19, LE32(timestamp) \o LE32(start_time) \o LE16(1) \o <<0>>
            \o LE32(t.total_elapsed_time) \o LE32(t.total_distance)
            \o LE32(t.avg_speed) \o LE32(t.max_speed)
            \o <<t.avg_cadence>> \o <<t.max_cadence>>
            \o LE16(t.avg_power % 65536) \o LE16(t.max_power % 65536)>>

fw_add_session(timestamp, start_time, t) ==
    <<18, LE32(timestamp) \o LE32(start_time) \o <<1>> \o <<0>>
            \o LE32(t.total_elapsed_time) \o LE32(t.total_distance)
            \o LE32(t.avg_speed) \o LE32(t.max_speed)
            \o <<t.avg_cadence>> \o <<t.max_cadence>>
            \o LE16(t.avg_power % 65536) \o LE16(t.max_power % 65536)
            \o LE32(t.total_descent) \o <<t.num_laps>>>>

\* write: data_buffer += bytes([0x40, msg_type]) + msg_data, record by record
RECURSIVE fw_data_buffer(_)
fw_data_buffer(recs) ==
    IF recs = <<>> THEN <<>>
    ELSE <<64, Head(recs)[1]>> \o Head(recs)[2] \o fw_data_buffer(Tail(recs))

\* write: the bytes of the five header writes, the data and the CRC
fw_write(recs) ==
    LET data_buffer == fw_data_buffer(recs)
        data_crc    == fw_crc16(data_buffer)
    IN  <<FIT_HEADER_SIZE, FIT_PROTOCOL_VERSION>> \o LE16(FIT_PROFILE_VERSION)
            \o LE32(Len(data_buffer)) \o <<46, 70, 73, 84>>
            \o data_buffer \o LE16(data_crc)

(***************************************************************************)
(* tools/generate_continuous_fit.py: FITFileWriter                         *)
(***************************************************************************)
RECURSIVE ff_crc16_bits(_, _)
ff_crc16_bits(crc, n) ==
    IF n = 0 THEN crc
    ELSE ff_crc16_bits(IF crc >= 32768
                       THEN BitXor((crc * 2) % 65536, 52225)
                       ELSE (crc * 2) % 65536, n - 1)

RECURSIVE ff_crc16_loop(_, _, _, _)
ff_crc16_loop(data, lo, hi, crc) ==
    IF lo > hi THEN crc
    ELSE IF lo = hi THEN ff_crc16_bits(BitXor((crc * 256) % 65536, data[lo]), 8)
    ELSE LET left == ff_crc16_loop(data, lo, Mid(lo, hi), crc)
         IN  IF left < 0 THEN left ELSE ff_crc16_loop(data, Mid(lo, hi) + 1, hi, left)

ff_crc16(data) == ff_crc16_loop(data, 1, Len(data), 0)

\* each add_* below is the bytes appended to self.data_buffer
\* struct.pack('<BHHHQ', 0, type_, manufacturer, product, serial_number)
ff_add_file_id(type_, manufacturer, product, serial_number) ==
    <<64, 0>> \o <<0>> \o LE16(type_) \o LE16(manufacturer) \o LE16(product)
        \o LE32(serial_number) \o <<0, 0, 0, 0>>

\* struct.pack('<IiiIIBH', ...) on the masked arguments; altitude is not written
ff_add_record(timestamp, r) ==
    <<64, 20>> \o LE32(timestamp) \o LE32(r.lat_semicircles) \o LE32(r.lon_semicircles)
        \o LE32(r.speed) \o LE32(r.distance) \o <<r.cadence % 256>> \o LE16(r.power % 65536)

\* struct.pack('<IIIIIIHHHH', ...) on the masked arguments
ff_totals(timestamp, start_time, t) ==
    LE32(timestamp) \o LE32(start_time)
        \o LE32(t.total_elapsed_time) \o LE32(t.total_distance)
        \o LE32(t.avg_speed) \o LE32(t.max_speed)
        \o LE16(t.sport % 65536) \o LE16(t.avg_cadence % 256)
        \o LE16(t.max_cadence % 256) \o LE16(t.total_descent % 65536)

ff_add_lap(timestamp, start_time, t) == <<64, 21>> \o ff_totals(timestamp, start_time, t)

ff_add_session(timestamp, start_time, t) == <<64, 34>> \o ff_totals(timestamp, start_time, t)

ff_write_file(data_buffer) ==
    LET data_crc  == ff_crc16(data_buffer)
        data_size == Len(data_buffer)
    IN  <<FIT_HEADER_SIZE, FIT_PROTOCOL_VERSION>> \o LE16(FIT_PROFILE_VERSION)
            \o LE32(data_size) \o <<46, 70, 73, 84>>
            \o data_buffer \o LE16(data_crc)

(***************************************************************************)
(* SpecEnc: the encoders and validate_fit_file                             *)
(***************************************************************************)
\* how many add_* calls precede write / write_file
MaxMessages == 3

\* the longest truncated file handed to add_activity_message and fix_crc
MaxInputLen == 18

\* a well-formed little-endian file: one definition, one data message
FixtureFile ==
    InputFile(DefinitionBytes(0, 0, <<0, 20>>, <<253, 1, 2>>) \o DataBytes(0, 1), "LE")

\* the file the two repair scripts open: a whole file or the first n bytes of one
EncInputs ==
    {create_comprehensive_fit, FixtureFile}
        \cup {Slice(f, 0, n) : f \in {create_comprehensive_fit, FixtureFile},
                               n \in 0..MaxInputLen}

\* the file with the byte at offset i changed
CorruptAt(fb, i) == [fb EXCEPT ![i + 1] = (fb[i + 1] + 1) % 256]

\* a file with a 12-byte header (no header CRC): big-endian data size as the
\* validators read it, the FileID messages, the nibble-wise file CRC
HeaderSize12File ==
    LET head == <<12, 32, 8, 115, 0, 0, 0, Len(gc_file_id)>> \o <<46, 70, 73, 84>>
    IN  head \o gc_file_id \o LE16(cmp_garmin_fit_crc(head \o gc_file_id))

\* offsets of the generated file at which one byte is changed: the magic, the
\* header CRC, the first message byte, the last trailer byte
CorruptOffsets == {9, 13, 14, 289}

\* files handed to the validators besides the encoders' own: the generated
\* file with one byte changed, and the file with the 12-byte header
ValidatorInputs ==
    {CorruptAt(create_comprehensive_fit, i) : i \in CorruptOffsets} \cup {HeaderSize12File}

\* timestamp_to_fit(datetime.utcnow()) on two runs of the script
FitNow == {1162425600, 1162425855}

\* int(datetime.now().timestamp())
BaseTimes == {1793491200}

\* seconds added to base_time / start_timestamp by the callers
TimeOffsets == {0, 1}

\* add_record arguments after conversion; an altitude below -100 m makes
\* int(altitude * 5) + 500 negative
FwRecordArgs ==
    {[lat_semicircles |-> 623271337, lon_semicircles |-> 251082595, alt5 |-> a,
      speed100 |-> 1250, distance100 |-> 10000, cadence |-> 90, power |-> 200]
        : a \in {625, -1000}}

FfRecordArgs ==
    {[lat_semicircles |-> 623271337, lon_semicircles |-> 251082595,
      speed |-> 12500, distance |-> 10000, cadence |-> 90, power |-> 200]}

Totals ==
    [total_distance |-> 50000, total_elapsed_time |-> 150000, avg_speed |-> 1250,
     max_speed |-> 1500, avg_cadence |-> 85, max_cadence |-> 95, avg_power |-> 200,
     max_power |-> 350, total_descent |-> 2500, num_laps |-> 1, sport |-> 1]

\* the locals of an encoder run: count is the number of add_* calls made
NoEnc == [status |-> "none", data_size |-> 0, valid |-> FALSE, base_time |-> 0, count |-> 0]

InitEnc ==
    /\ prog = "idle"
    /\ file_bytes \in EncInputs \cup ValidatorInputs
    /\ run = NoEnc
    /\ twin = NoRun
    /\ twin_bytes = <<>>
    /\ records = <<>>
    /\ crc_data = <<>>

\* create_comprehensive_fit() and the write of its result
CreateComprehensiveFit ==
    /\ prog = "idle"
    /\ prog' = "create_comprehensive_fit"
    /\ file_bytes' = create_comprehensive_fit
    /\ run' = [run EXCEPT !.status = "written", !.data_size = Len(gc_data_msg)]
    /\ UNCHANGED <<twin, twin_bytes, records, crc_data>>

\* tools/add_activity_message.py, run on the file
AddActivityMessage ==
    /\ prog = "idle"
    /\ \E fit_ts \in FitNow :
          LET data == aa_extended(file_bytes, fit_ts)
          IN  /\ file_bytes' = aa_final_data(data)
              /\ run' = [run EXCEPT !.status = "written", !.data_size = aa_data_size(data)]
    /\ prog' = "add_activity_message"
    /\ UNCHANGED <<twin, twin_bytes, records, crc_data>>

\* tools/fix_crc.py, run on the file; nothing is written when to_bytes raises
FixCrc ==
    /\ prog = "idle"
    /\ prog' = "fix_crc"
    /\ IF fc_raises(file_bytes)
       THEN /\ run' = [run EXCEPT !.status = "exception"]
            /\ UNCHANGED file_bytes
       ELSE /\ file_bytes' = fc_final_data(file_bytes)
            /\ run' = [run EXCEPT !.status = "written",
                                  !.data_size = fc_data_size(DropLast2(file_bytes))]
    /\ UNCHANGED <<twin, twin_bytes, records, crc_data>>

\* validate_fit_file(filepath) on the file an encoder has written
ValidateFitFile ==
    /\ run.status = "written"
    /\ run' = [run EXCEPT !.status = "validated", !.valid = validate_fit_file(file_bytes)]
    /\ UNCHANGED <<prog, file_bytes, twin, twin_bytes, records, crc_data>>

\* FITWriter(filepath)
NewFITWriter ==
    /\ prog = "idle"
    /\ prog' = "FITWriter"
    /\ \E base_time \in BaseTimes :
          run' = [run EXCEPT !.status = "open", !.base_time = base_time]
    /\ records' = <<>>
    /\ file_bytes' = <<>>
    /\ UNCHANGED <<twin, twin_bytes, crc_data>>

\* writer.add_file_id()
FwAddFileId ==
    /\ prog = "FITWriter"
    /\ run.status = "open"
    /\ Len(records) < MaxMessages
    /\ records' = Append(records, fw_add_file_id)
    /\ run' = [run EXCEPT !.count = @ + 1]
    /\ UNCHANGED <<prog, file_bytes, twin, twin_bytes, crc_data>>

\* writer.add_device_info(timestamp)
FwAddDeviceInfo ==
    /\ prog = "FITWriter"
    /\ run.status = "open"
    /\ Len(records) < MaxMessages
    /\ \E o \in TimeOffsets :
          /\ records' = Append(records, fw_add_device_info(run.base_time + o))
    /\ run' = [run EXCEPT !.count = @ + 1]
    /\ UNCHANGED <<prog, file_bytes, twin, twin_bytes, crc_data>>

\* writer.add_record(...); a struct.error ends the script before write
FwAddRecord ==
    /\ prog = "FITWriter"
    /\ run.status = "open"
    /\ Len(records) < MaxMessages
    /\ \E o \in TimeOffsets, r \in FwRecordArgs :
          IF fw_add_record_raises(r)
          THEN /\ run' = [run EXCEPT !.status = "exception"]
               /\ UNCHANGED records
          ELSE /\ records' = Append(records, fw_add_record(run.base_time + o, r))
               /\ run' = [run EXCEPT !.count = @ + 1]
    /\ UNCHANGED <<prog, file_bytes, twin, twin_bytes, crc_data>>

\* writer.add_event(timestamp, event_type)
FwAddEvent ==
    /\ prog = "FITWriter"
    /\ run.status = "open"
    /\ Len(records) < MaxMessages
    /\ \E o \in TimeOffsets :
          /\ records' = Append(records, fw_add_event(run.base_time + o, 0))
    /\ run' = [run EXCEPT !.count = @ + 1]
    /\ UNCHANGED <<prog, file_bytes, twin, twin_bytes, crc_data>>

\* writer.add_lap(...)
FwAddLap ==
    /\ prog = "FITWriter"
    /\ run.status = "open"
    /\ Len(records) < MaxMessages
    /\ \E o \in TimeOffsets :
          /\ records' = Append(records, fw_add_lap(run.base_time + o, run.base_time, Totals))
    /\ run' = [run EXCEPT !.count = @ + 1]
    /\ UNCHANGED <<prog, file_bytes, twin, twin_bytes, crc_data>>

\* writer.add_session(...)
FwAddSession ==
    /\ prog = "FITWriter"
    /\ run.status = "open"
    /\ Len(records) < MaxMessages
    /\ \E o \in TimeOffsets :
          /\ records' = Append(records, fw_add_session(run.base_time + o, run.base_time, Totals))
    /\ run' = [run EXCEPT !.count = @ + 1]
    /\ UNCHANGED <<prog, file_bytes, twin, twin_bytes, crc_data>>

\* writer.write()
FwWrite ==
    /\ prog = "FITWriter"
    /\ run.status = "open"
    /\ file_bytes' = fw_write(records)
    /\ run' = [run EXCEPT !.status = "written", !.data_size = Len(fw_data_buffer(records))]
    /\ UNCHANGED <<prog, twin, twin_bytes, records, crc_data>>

\* FITFileWriter(filepath)
NewFITFileWriter ==
    /\ prog = "idle"
    /\ prog' = "FITFileWriter"
    /\ \E start_timestamp \in BaseTimes :
          run' = [run EXCEPT !.status = "open", !.base_time = start_timestamp]
    /\ records' = <<>>
    /\ file_bytes' = <<>>
    /\ UNCHANGED <<twin, twin_bytes, crc_data>>

\* fit_writer.add_file_id(type_=4, manufacturer=1, product=0, serial_number=12345, ...)
FfAddFileId ==
    /\ prog = "FITFileWriter"
    /\ run.status = "open"
    /\ run.count < MaxMessages
    /\ records' = records \o ff_add_file_id(4, 1, 0, 12345)
    /\ run' = [run EXCEPT !.count = @ + 1]
    /\ UNCHANGED <<prog, file_bytes, twin, twin_bytes, crc_data>>

\* fit_writer.add_record(...)
FfAddRecord ==
    /\ prog = "FITFileWriter"
    /\ run.status = "open"
    /\ run.count < MaxMessages
    /\ \E o \in TimeOffsets, r \in FfRecordArgs :
          /\ records' = records \o ff_add_record(run.base_time + o, r)
    /\ run' = [run EXCEPT !.count = @ + 1]
    /\ UNCHANGED <<prog, file_bytes, twin, twin_bytes, crc_data>>

\* fit_writer.add_lap(...)
FfAddLap ==
    /\ prog = "FITFileWriter"
    /\ run.status = "open"
    /\ run.count < MaxMessages
    /\ \E o \in TimeOffsets :
          /\ records' = records \o ff_add_lap(run.base_time + o, run.base_time, Totals)
    /\ run' = [run EXCEPT !.count = @ + 1]
    /\ UNCHANGED <<prog, file_bytes, twin, twin_bytes, crc_data>>

\* fit_writer.add_session(...)
FfAddSession ==
    /\ prog = "FITFileWriter"
    /\ run.status = "open"
    /\ run.count < MaxMessages
    /\ \E o \in TimeOffsets :
          /\ records' = records \o ff_add_session(run.base_time + o, run.base_time, Totals)
    /\ run' = [run EXCEPT !.count = @ + 1]
    /\ UNCHANGED <<prog, file_bytes, twin, twin_bytes, crc_data>>

\* fit_writer.write_file()
FfWriteFile ==
    /\ prog = "FITFileWriter"
    /\ run.status = "open"
    /\ file_bytes' = ff_write_file(records)
    /\ run' = [run EXCEPT !.status = "written", !.data_size = Len(records)]
    /\ UNCHANGED <<prog, twin, twin_bytes, records, crc_data>>

\* validate_fit_comprehensive.validate_fit_file(filepath) on a file on disk
ValidateInput ==
    /\ prog = "idle"
    /\ prog' = "validate_fit_file"
    /\ run' = [run EXCEPT !.status = "validated", !.valid = validate_fit_file(file_bytes)]
    /\ UNCHANGED <<file_bytes, twin, twin_bytes, records, crc_data>>

\* verify_sample_fit.validate_fit_file(filepath) on a file on disk
VerifySampleFit ==
    /\ prog = "idle"
    /\ prog' = "verify_sample_fit"
    /\ run' = [run EXCEPT !.status = "validated", !.valid = vs_validate_fit_file(file_bytes)]
    /\ UNCHANGED <<file_bytes, twin, twin_bytes, records, crc_data>>

NextEnc ==
    \/ CreateComprehensiveFit
    \/ AddActivityMessage
    \/ FixCrc
    \/ ValidateFitFile
    \/ NewFITWriter
    \/ FwAddFileId
    \/ FwAddDeviceInfo
    \/ FwAddRecord
    \/ FwAddEvent
    \/ FwAddLap
    \/ FwAddSession
    \/ FwWrite
    \/ NewFITFileWriter
    \/ FfAddFileId
    \/ FfAddRecord
    \/ FfAddLap
    \/ FfAddSession
    \/ FfWriteFile
    \/ ValidateInput
    \/ VerifySampleFit

SpecEnc == InitEnc /\ [][NextEnc]_vars

(***************************************************************************)
(* Claims on the encoders                                                  *)
(***************************************************************************)
\* header bytes 4-7 in the byte order the encoder wrote them: big-endian in
\* create_comprehensive_fit, little-endian in the two repair scripts
StoredDataSize ==
    IF prog = "create_comprehensive_fit"
    THEN UnpackBE32(Slice(file_bytes, 4, 8))
    ELSE UnpackLE32(Slice(file_bytes, 4, 8))

\* C4: every file written by create_comprehensive_fit, add_activity_message.py
\* or fix_crc.py is 14 + data_size + 2 bytes long, data_size being both the
\* value the encoder stored in header bytes 4-7 and the number of bytes
\* between the 14-byte header and the 2-byte trailer.
C4_EncodedSizeInvariant ==
    (prog \in {"create_comprehensive_fit", "add_activity_message", "fix_crc"}
        /\ run.status \in {"written", "validated"})
        => /\ Len(file_bytes) = 14 + StoredDataSize + 2
           /\ StoredDataSize = run.data_size
           /\ Len(Slice(file_bytes, 14, Len(file_bytes) - 2)) = StoredDataSize

\* fix_crc has rewritten a file that holds data bytes
C4_Witness ==
    /\ prog = "fix_crc"
    /\ run.status = "written"
    /\ run.data_size > 0
    /\ Len(file_bytes) > 16

\* C5: validate_fit_file returns True on the file create_comprehensive_fit
\* writes; bytes 12-13 hold little-endian the nibble-wise CRC of bytes 0-11 and
\* the last two bytes hold little-endian the nibble-wise CRC of all bytes
\* before them, header included.
C5_ComprehensiveFileValidates ==
    (prog = "create_comprehensive_fit" /\ run.status = "validated")
        => /\ run.valid
           /\ UnpackLE16(Slice(file_bytes, 12, 14))
                 = cmp_garmin_fit_crc(Slice(file_bytes, 0, 12))
           /\ UnpackLE16(Last2(file_bytes)) = cmp_garmin_fit_crc(DropLast2(file_bytes))

\* the validator has run on the 290-byte file of the encoder
C5_Witness ==
    /\ prog = "create_comprehensive_fit"
    /\ run.status = "validated"
    /\ Len(file_bytes) = 14 + Len(gc_data_msg) + 2
    /\ file_bytes = create_comprehensive_fit

\* C10 as claimed: the file FITWriter.write or FITFileWriter.write_file puts
\* on disk is header_size + data_size + 2 bytes long, header_size being byte 0
\* and data_size the little-endian u32 at bytes 4-7.
C10_WriterSizeInvariant ==
    (prog \in {"FITWriter", "FITFileWriter"} /\ run.status \in {"written", "validated"})
        => Len(file_bytes) = At(file_bytes, 0) + UnpackLE32(Slice(file_bytes, 4, 8)) + 2

(***************************************************************************)
(* Claims on the files of FITWriter and FITFileWriter                      *)
(***************************************************************************)
WriterFileWritten ==
    prog \in {"FITWriter", "FITFileWriter"} /\ run.status \in {"written", "validated"}

\* C11 as claimed: the file FITWriter.write or FITFileWriter.write_file puts
\* on disk holds at bytes 12-13 the CRC of its first 12 bytes and ends with
\* the little-endian canonical nibble-wise CRC of every byte before the
\* trailer, header included.
C11_WriterCrcs ==
    WriterFileWritten
        => /\ Len(file_bytes) >= 16
           /\ UnpackLE16(Slice(file_bytes, 12, 14))
                 = cmp_garmin_fit_crc(Slice(file_bytes, 0, 12))
           /\ UnpackLE16(Last2(file_bytes)) = cmp_garmin_fit_crc(DropLast2(file_bytes))

\* where write put the first byte of the k-th added message: after the 12
\* header bytes and the earlier messages, each two bytes longer than its data
RECURSIVE EmittedAt(_, _)
EmittedAt(recs, k) ==
    IF k = 1 THEN 12 ELSE EmittedAt(recs, k - 1) + 2 + Len(recs[k - 1][2])

\* a Definition Message header for local type lmt stands at an offset of the
\* file between the file header and offset at
DefinedBefore(lmt, at) ==
    \E j \in 12..(at - 1) :
        IsDefinition(At(file_bytes, j)) /\ LocalType(At(file_bytes, j)) = lmt

\* C12 as claimed: each message added to the writer is emitted as a Data
\* Message: the byte at its start has bit 6 clear, and a Definition Message
\* for the local type in its low 4 bits stands earlier in the file (checked
\* for every message of FITWriter, for the first one of FITFileWriter).
C12_AddedMessagesAreDataMessages ==
    WriterFileWritten
        => \A k \in 1..(IF prog = "FITWriter" THEN Len(records) ELSE Min(run.count, 1)) :
              LET at == IF prog = "FITWriter" THEN EmittedAt(records, k) ELSE 12
              IN  /\ ~IsDefinition(At(file_bytes, at))
                  /\ DefinedBefore(LocalType(At(file_bytes, at)), at)

\* C13 as claimed: in the file create_comprehensive_fit writes, header bytes
\* 4-7 read little-endian give the length of the message stream and header
\* bytes 2-3 read little-endian give the profile version written, 2163.
C13_ComprehensiveHeaderLittleEndian ==
    (prog = "create_comprehensive_fit" /\ run.status \in {"written", "validated"})
        => /\ UnpackLE32(Slice(file_bytes, 4, 8)) = Len(gc_data_msg)
           /\ UnpackLE32(Slice(file_bytes, 4, 8)) = Len(file_bytes) - 14 - 2
           /\ UnpackLE16(Slice(file_bytes, 2, 4)) = 2163

(***************************************************************************)
(* list_messages.py, test_fit_csv.py: read_fit_messages                    *)
(***************************************************************************)
\* gmn = struct.unpack('<H' if arch == 0 else '>H', data[pos+2:pos+4])[0],
\* pos being the offset after the record header
lm_gmn(data, pos) ==
    IF At(data, pos + 1) = 0
    THEN UnpackLE16(Slice(data, pos + 2, pos + 4))
    ELSE UnpackBE16(Slice(data, pos + 2, pos + 4))

tc_gmn(data, pos) ==
    IF At(data, pos + 1) = 0
    THEN UnpackLE16(Slice(data, pos + 2, pos + 4))
    ELSE UnpackBE16(Slice(data, pos + 2, pos + 4))

\* C14 as claimed: the global message number that parse_file and the two
\* read_fit_messages record for a Definition Message is the big-endian value
\* of its two bytes, whether the architecture byte is 0 or 1.
C14_GlobalMessageNumberBigEndian ==
    prog = "manual" =>
        \A i \in 1..Len(run.log) :
            run.log[i].kind = "def" =>
                LET pos == run.log[i].at + 1
                    be  == UnpackBE16(Slice(file_bytes, pos + 2, pos + 4))
                IN  /\ run.log[i].gmn = be
                    /\ lm_gmn(file_bytes, pos) = be
                    /\ tc_gmn(file_bytes, pos) = be

(***************************************************************************)
(* Claims on the cursor and on malformed records                           *)
(***************************************************************************)
\* C15 as claimed: when parse_file's record loop ends without the
\* undefined-local-type break, pointer equals header_size + data_size as the
\* trailer is read; the cursor never ends past the first trailer byte.
C15_CursorAtTrailer ==
    (prog = "manual" /\ run.status \in {"footer", "done"} /\ run.err = "none")
        => run.pointer = run.header_size + run.data_size

\* the offset at which the bytes the record loop may read end
DataEnd ==
    IF prog = "manual" THEN run.header_size + run.data_size ELSE Len(run.payload)

\* C16 as claimed: in parse_file and in the fit_summary_fixed loop a data
\* message whose definition asks for more bytes than are left is not reported
\* or counted as a parsed message, and the cursor is not moved past the end of
\* the data.
C16_TruncatedDataMessage ==
    (prog \in {"manual", "summary"} /\ run.status \in {"loop", "footer", "done"})
        => /\ \A i \in 1..Len(run.log) :
                 run.log[i].kind = "data" => run.log[i].next <= DataEnd
           /\ run.pointer <= DataEnd

\* the record-header byte of a reported message
HeaderByteOf(e) ==
    IF prog = "manual" THEN At(file_bytes, e.at) ELSE At(run.payload, e.at)

\* C17 as claimed: in parse_file and in the fit_summary_fixed loop a record
\* header with bit 7 set is never handled as a Definition or Data Message
\* header: no reported definition (registry update) and no reported data
\* message (field bytes consumed under a stored definition) starts at one.
C17_CompressedHeaderNotParsed ==
    prog \in {"manual", "summary"} =>
        \A i \in 1..Len(run.log) : HeaderByteOf(run.log[i]) < 128

(***************************************************************************)
(* Claims on the validators                                                *)
(***************************************************************************)
\* the stored data size, big-endian, as far as a file length can reach
SizeMatches(data) ==
    At(data, 4) < 128 /\ Len(data) = At(data, 0) + UnpackBE32(Slice(data, 4, 8)) + 2

\* the four checks, on the canonical CRC of garmin_crc_comparison.py
MagicOk(data) == Slice(data, 8, 12) = <<46, 70, 73, 84>>

HeaderCrcOk(data) ==
    /\ At(data, 0) >= 2
    /\ UnpackLE16(Slice(data, At(data, 0) - 2, At(data, 0)))
          = cmp_garmin_fit_crc(Slice(data, 0, At(data, 0) - 2))

FileCrcOk(data) == UnpackLE16(Last2(data)) = cmp_garmin_fit_crc(DropLast2(data))

\* C18: validate_fit_comprehensive.validate_fit_file returns True only if the
\* data type is '.FIT', the length is header_size + data_size + 2, the stored
\* header CRC is the CRC of the header bytes before it and the stored file CRC
\* is the CRC of all bytes but the last two; when a check fails it returns False.
C18_ValidateChecksAll ==
    (prog # "verify_sample_fit" /\ run.status = "validated")
        => (run.valid <=> /\ Len(file_bytes) >= 14
                          /\ MagicOk(file_bytes)
                          /\ SizeMatches(file_bytes)
                          /\ HeaderCrcOk(file_bytes)
                          /\ FileCrcOk(file_bytes))

\* a file that passes the first three checks and fails the last was rejected
C18_Witness ==
    /\ prog = "validate_fit_file"
    /\ run.status = "validated"
    /\ ~run.valid
    /\ Len(file_bytes) >= 14
    /\ MagicOk(file_bytes) /\ SizeMatches(file_bytes) /\ HeaderCrcOk(file_bytes)
    /\ ~FileCrcOk(file_bytes)

\* C19 as claimed: verify_sample_fit.validate_fit_file returns True only when
\* the stored header CRC is the nibble-wise CRC of bytes 0-11 and the stored
\* file CRC is the nibble-wise CRC of all bytes but the last two.
C19_VerifySampleChecksCrcs ==
    (prog = "verify_sample_fit" /\ run.status = "validated" /\ run.valid)
        => /\ UnpackLE16(Slice(file_bytes, 12, 14))
                 = cmp_garmin_fit_crc(Slice(file_bytes, 0, 12))
           /\ FileCrcOk(file_bytes)

\* C20 as claimed: validate_fit_comprehensive.validate_fit_file accepts a file
\* with header_size 12, the '.FIT' magic, the right total size and the right
\* file CRC, comparing no header CRC.
C20_HeaderSize12Accepted ==
    (prog = "validate_fit_file" /\ run.status = "validated"
        /\ Len(file_bytes) >= 14 /\ At(file_bytes, 0) = 12
        /\ MagicOk(file_bytes) /\ SizeMatches(file_bytes) /\ FileCrcOk(file_bytes))
        => run.valid

(***************************************************************************)
(* Single-byte changes and garmin_fit_crc                                  *)
(***************************************************************************)
\* the positions at which two byte strings of the same length differ
DifferAt(a, b) == {i \in 1..Len(a) : a[i] # b[i]}

\* C21: two byte strings of equal length that differ in exactly one byte
\* position get different 16-bit values from the nibble-wise garmin_fit_crc,
\* both from garmin_crc_comparison.py's and from generate_comprehensive.py's.
C21_SingleByteChangeChangesCrc ==
    (/\ prog = "crc_pair"
     /\ Len(twin_bytes) = Len(crc_data)
     /\ Cardinality(DifferAt(crc_data, twin_bytes)) = 1)
        => /\ (run.cmp # -1 /\ twin.cmp # -1)
                => (run.cmp # twin.cmp /\ run.cmp \in 0..65535 /\ twin.cmp \in 0..65535)
           /\ (run.gc # -1 /\ twin.gc # -1) => run.gc # twin.gc

\* both routines have run on a string of several bytes and on a copy of it
\* with one bit of one byte flipped
C21_Witness ==
    /\ prog = "crc_pair"
    /\ Len(crc_data) >= 2
    /\ Len(twin_bytes) = Len(crc_data)
    /\ \E i \in 1..Len(crc_data) :
          /\ DifferAt(crc_data, twin_bytes) = {i}
          /\ twin_bytes[i] = BitXor(crc_data[i], 128)
    /\ run.cmp # -1 /\ twin.cmp # -1 /\ run.gc # -1 /\ twin.gc # -1

(***************************************************************************)
(* FITWriter timestamps                                                    *)
(***************************************************************************)
\* seconds between the unix epoch and the FIT epoch 1989-12-31T00:00:00 UTC
FitEpochOffset == 631065600

\* C22: every timestamp field written by FITWriter.add_device_info,
\* add_record, add_event, add_lap and add_session is the unsigned 32-bit
\* value unix_seconds - 631065600 of its instant, the instant's unix_seconds
\* being base_time plus the elapsed offset.
C22_TimestampsSinceFitEpoch ==
    prog = "FITWriter"
        => \A k \in 1..Len(records) :
              records[k][1] # 0
                 => \E o \in TimeOffsets :
                       UnpackLE32(Slice(records[k][2], 0, 4))
                          = run.base_time + o - FitEpochOffset

(***************************************************************************)
(* parse_file: the definitions registry                                    *)
(***************************************************************************)
\* the definitions reported so far for local type k
DefsOf(log, k) == {j \in 1..Len(log) : log[j].kind = "def" /\ log[j].lmt = k}

\* C23: in every state of parse_file the definitions registry has keys only
\* in 0..15, so at most 16 entries, and every entry holds the field
\* descriptors of the latest Definition Message of its local type in the
\* order they stand in the file, with total_size the sum of their size bytes.
C23_RegistryWellFormed ==
    prog = "manual"
        => /\ DOMAIN run.definitions \subseteq 0..15
           /\ Cardinality(DOMAIN run.definitions) <= 16
           /\ \A k \in DOMAIN run.definitions :
                 /\ DefsOf(run.log, k) # {}
                 /\ LET at     == run.log[Latest(DefsOf(run.log, k))].at
                        n      == At(file_bytes, at + 5)
                        entry  == run.definitions[k]
                    IN  /\ Len(entry.fields) = n
                        /\ \A i \in 1..n :
                              /\ entry.fields[i].def_num = At(file_bytes, at + 3 + 3 * i)
                              /\ entry.fields[i].size    = At(file_bytes, at + 4 + 3 * i)
                              /\ entry.fields[i].type    = At(file_bytes, at + 5 + 3 * i)
                        /\ entry.total_size
                              = Sum([i \in 1..n |-> At(file_bytes, at + 4 + 3 * i)])

\* the registry holds local type 15, read from a header with bits 4 and 5 set,
\* with two fields of unequal sizes, beside a second local type
C23_Witness ==
    /\ prog = "manual"
    /\ run.status = "done"
    /\ DOMAIN run.definitions = {0, 15}
    /\ FieldSizes(run.definitions[15].fields) = <<4, 1>>
    /\ run.definitions[15].total_size = 5

(***************************************************************************)
(* create_comprehensive_fit: the message stream                            *)
(***************************************************************************)
\* the messages of a record stream from offset pos on, each data message
\* taking the bytes that the definition in force for its local type gives it;
\* sizes maps the local types defined so far to their payload size
RECURSIVE StreamLog(_, _, _)
StreamLog(data, pos, sizes) ==
    IF pos >= Len(data) THEN <<>>
    ELSE LET header == At(data, pos)
             lmt    == LocalType(header)
         IN  IF IsDefinition(header)
                   /\ (Len(data) < pos + 6 \/ Len(data) < pos + 6 + 3 * At(data, pos + 5))
             THEN <<[kind |-> "undefined", lmt |-> lmt, at |-> pos, size |-> 0]>>
             ELSE IF IsDefinition(header)
             THEN LET n     == At(data, pos + 5)
                      total == Sum(FieldSizes(FieldsAt(data, pos + 6, n)))
                  IN  <<[kind |-> "def", lmt |-> lmt, at |-> pos, size |-> total]>>
                         \o StreamLog(data, pos + 6 + 3 * n, (lmt :> total) @@ sizes)
             ELSE IF lmt \in DOMAIN sizes
             THEN <<[kind |-> "data", lmt |-> lmt, at |-> pos, size |-> sizes[lmt]]>>
                     \o StreamLog(data, pos + 1 + sizes[lmt], sizes)
             ELSE <<[kind |-> "undefined", lmt |-> lmt, at |-> pos, size |-> 0]>>

\* the offsets in data_msg at which the encoder starts a Data Message: the
\* FileID data, the ten records, the Activity data
GcDataStarts ==
    {Len(gc_file_id) - 10}
        \cup {Len(gc_file_id) + Len(gc_record_def) + i * Len(gc_record(0)) : i \in 0..9}
        \cup {Len(gc_data_msg) - 7}

\* C24: in the message stream built by create_comprehensive_fit each local
\* type used (0, 1, 2) has exactly one Definition Message, which precedes
\* every Data Message of that local type, and every Data Message the encoder
\* starts carries exactly the payload bytes its definition's field sizes sum
\* to: 9, 19 and 6 bytes.
C24_OneDefinitionPerLocalType ==
    (prog = "create_comprehensive_fit" /\ run.status \in {"written", "validated"})
        => LET stream == Slice(file_bytes, 14, 14 + run.data_size)
               log    == StreamLog(stream, 0, <<>>)
               Of(kind, lmt) == {j \in 1..Len(log) : log[j].kind = kind /\ log[j].lmt = lmt}
           IN  /\ {log[j].lmt : j \in 1..Len(log)} = {0, 1, 2}
               /\ \A j \in 1..Len(log) : log[j].kind # "undefined"
               /\ \A lmt \in {0, 1, 2} :
                     /\ Cardinality(Of("def", lmt)) = 1
                     /\ Of("data", lmt) # {}
                     /\ \A d \in Of("def", lmt), m \in Of("data", lmt) : d < m
               /\ \A j \in 1..Len(log) :
                     log[j].size = CASE log[j].lmt = 0 -> 9
                                     [] log[j].lmt = 1 -> 19
                                     [] log[j].lmt = 2 -> 6
                                     [] OTHER          -> -1
               /\ {log[j].at : j \in {k \in 1..Len(log) : log[k].kind = "data"}}
                     = GcDataStarts
               /\ log[Len(log)].at + 1 + log[Len(log)].size = Len(stream)

\* the encoder has written its stream of 3 definitions and 12 data messages
C24_Witness ==
    /\ prog = "create_comprehensive_fit"
    /\ run.status = "written"
    /\ Len(StreamLog(Slice(file_bytes, 14, 14 + run.data_size), 0, <<>>)) = 15
    /\ Cardinality(GcDataStarts) = 12

(***************************************************************************)
(* add_activity_message: the appended definition                           *)
(***************************************************************************)
\* C25: the Definition Message appended by add_activity_message (record header
\* 0x46, developer-data bit clear, field count 4) is 1 + 5 + 3*4 = 18 bytes
\* long: the byte right after its last field descriptor is the record header
\* 0x06 of the activity Data Message, whose 11 payload bytes end exactly at
\* the end of the data section counted in data_size.
C25_ActivityDefinitionIs18Bytes ==
    [][(prog = "idle" /\ prog' = "add_activity_message" /\ Len(file_bytes) >= 16)
          => LET start == Len(file_bytes) - 2
             IN  /\ At(file_bytes', start) = 70
                 /\ At(file_bytes', start + 5) = 4
                 /\ At(file_bytes', start + 18) = 6
                 /\ start + 18 + 1 + 11 = 14 + run'.data_size
                 /\ 14 + run'.data_size = Len(file_bytes') - 2]_vars

(***************************************************************************)
(* parse_file: files shorter than their header claims                      *)
(***************************************************************************)
\* C26: on every input, files shorter than their header claims included,
\* parse_file never indexes file_bytes at or past len(file_bytes) and never
\* ends with an uncaught exception: it always reaches its footer.
C26_NoUncaughtException ==
    prog = "manual"
        => /\ run.status # "exception"
           /\ run.status = "loop" /\ run.pointer < run.header_size + run.data_size
                 => run.pointer < Len(file_bytes)

(***************************************************************************)
(* parse_file: the record loop ends                                        *)
(***************************************************************************)
\* C27: each pass of parse_file's record loop either leaves the loop (the
\* condition fails, the break, an exception) or moves pointer forward by at
\* least 1, and the loop is left as soon as pointer >= header_size +
\* data_size; pointer, bounded by the finite input, cannot grow for ever.
C27_RecordLoopAdvances ==
    [][(prog = "manual" /\ run.status = "loop")
          => /\ run'.status = "loop" => run'.pointer >= run.pointer + 1
             /\ run.pointer >= run.header_size + run.data_size
                   => (run'.status = "footer" /\ run'.pointer = run.pointer)
             /\ run'.status = "loop" => run.pointer < Len(file_bytes)]_vars

\* the loop has made several passes, one of them over a data message of a
\* definition with payload, and was left at header_size + data_size
C27_Witness ==
    /\ prog = "manual"
    /\ run.status = "done"
    /\ Len(run.log) >= 3
    /\ \E i \in 1..Len(run.log) : run.log[i].kind = "data"
    /\ run.pointer = run.header_size + run.data_size

(***************************************************************************)
(* create_comprehensive_fit: latitude and longitude                        *)
(***************************************************************************)
\* four bytes read as a big-endian two's-complement sint32, as a wide integer
ReadSint32BE(b) ==
    LET hi == b[1] * 256 + b[2]
    IN  <<IF hi >= 32768 THEN hi - 65536 ELSE hi, b[3] * 256 + b[4]>>

\* a wide integer in [-2^31, 2^31 - 1]
InSint32(w) == w[1] \in -32768..32767 /\ w[2] \in 0..65535

\* C28: every latitude and longitude that create_comprehensive_fit passes to
\* write_sint32_be lies in [-2^31, 2^31 - 1], and the four bytes emitted for
\* it, read back as a big-endian two's-complement sint32, are the value written.
C28_CoordinatesFitSint32 ==
    (prog = "create_comprehensive_fit" /\ run.status \in {"written", "validated"})
        => \A i \in 0..9 :
              LET at        == 14 + Len(gc_file_id) + Len(gc_record_def) + i * Len(gc_record(0))
                  latitude  == WAdd(GcLatitude, i * 100)
                  longitude == WAdd(GcLongitude, i * 100)
              IN  /\ InSint32(latitude)
                  /\ ReadSint32BE(Slice(file_bytes, at + 5, at + 9)) = latitude
                  /\ InSint32(longitude)
                  /\ ReadSint32BE(Slice(file_bytes, at + 9, at + 13)) = longitude

(***************************************************************************)
(* fix_crc: what the script leaves alone                                   *)
(***************************************************************************)
\* the offsets fix_crc may not change in a file of n bytes: header bytes 0-3
\* and 8-11, and the message bytes from 14 up to the trailer
FixCrcFrame(n) == (0..3) \cup (8..11) \cup (14..(n - 3))

\* C29: on an input of at least 16 bytes fix_crc writes a file of the same
\* length in which header bytes 0-3 and 8-11 and every message byte from
\* offset 14 up to the trailer are those of the input; only the data size
\* (bytes 4-7), the header CRC (bytes 12-13) and the trailer may differ.
C29_FixCrcFrame ==
    [][(prog = "idle" /\ prog' = "fix_crc" /\ Len(file_bytes) >= 16)
          => /\ run'.status = "written"
             /\ Len(file_bytes') = Len(file_bytes)
             /\ \A i \in FixCrcFrame(Len(file_bytes)) :
                   At(file_bytes', i) = At(file_bytes, i)]_vars

\* fix_crc has rewritten the 290-byte generated file: the data size is now
\* little-endian, the 274 message bytes are in place
C29_Witness ==
    /\ prog = "fix_crc"
    /\ run.status = "written"
    /\ Len(file_bytes) = 290
    /\ Slice(file_bytes, 4, 8) = LE32(274)
    /\ Slice(file_bytes, 4, 8) # Slice(create_comprehensive_fit, 4, 8)
    /\ Slice(file_bytes, 14, 288) = gc_data_msg

(***************************************************************************)
(* test_descent_detection.py: the detection loop of main                   *)
(***************************************************************************)
\* records[idx] of the Python list; a record is [altitude, speed, turnaround]:
\* altitude is NoAltitude for None, speed is records[i].get('speed', 0), and
\* turnaround is what _is_gps_turnaround's haversine sums give at this index
NoAltitude == -1

Rec(recs, idx) == recs[idx + 1]

\* for i in range(start_idx, len(records) - 5), from i on
RECURSIVE find_descent_start_from(_, _)
find_descent_start_from(recs, i) ==
    IF i >= Len(recs) - 5 THEN -1
    ELSE LET alt1 == Rec(recs, i).altitude
             alt2 == Rec(recs, i + 1).altitude
             alt3 == Rec(recs, i + 2).altitude
         IN  IF alt1 = NoAltitude \/ alt2 = NoAltitude \/ alt3 = NoAltitude
             THEN find_descent_start_from(recs, i + 1)
             ELSE IF alt1 > alt2 /\ alt2 > alt3 /\ Rec(recs, i).speed > 2
             THEN i
             ELSE find_descent_start_from(recs, i + 1)

find_descent_start(recs, start_idx) == find_descent_start_from(recs, Max(start_idx, 0))

\* _is_gps_turnaround(records, idx): False below index 10
is_gps_turnaround(recs, idx) == IF idx < 10 THEN FALSE ELSE Rec(recs, idx).turnaround

\* for i in range(start_idx + 1, len(records) - 1), from i on with the counter
RECURSIVE find_descent_end_from(_, _, _)
find_descent_end_from(recs, i, consecutive_flat_or_up) ==
    IF i >= Len(recs) - 1 THEN Len(recs) - 1
    ELSE LET alt_current == Rec(recs, i).altitude
             alt_next    == Rec(recs, i + 1).altitude
             speed       == Rec(recs, i).speed
             c1 == IF alt_current > alt_next THEN 0 ELSE consecutive_flat_or_up + 1
             c2 == IF speed < 1 THEN c1 + 1 ELSE c1
         IN  IF alt_current = NoAltitude \/ alt_next = NoAltitude THEN Len(recs) - 1
             ELSE IF i > 10 /\ is_gps_turnaround(recs, i) THEN i
             ELSE IF c2 >= 3 THEN i
             ELSE find_descent_end_from(recs, i + 1, c2)

find_descent_end(recs, start_idx) == find_descent_end_from(recs, start_idx + 1, 0)

\* the None that extract_descent_segment returns
NoSegment ==
    [start_idx |-> -1, end_idx |-> -1, altitude_drop |-> 0, duration |-> 0,
     altitudes |-> <<>>, speeds |-> <<>>]

\* extract_descent_segment: the fields validate_descent and the loop use
extract_descent_segment(recs, start_idx, end_idx) ==
    IF start_idx >= end_idx \/ end_idx >= Len(recs) THEN NoSegment
    ELSE LET part      == [k \in 1..(end_idx - start_idx + 1) |-> Rec(recs, start_idx + k - 1)]
             altitudes == SelectSeq([k \in 1..Len(part) |-> part[k].altitude],
                                    LAMBDA a : a # NoAltitude)
             speeds    == [k \in 1..Len(part) |-> part[k].speed]
         IN  IF altitudes = <<>> THEN NoSegment
             ELSE [start_idx     |-> start_idx,
                   end_idx       |-> end_idx,
                   altitude_drop |-> altitudes[1] - altitudes[Len(altitudes)],
                   duration      |-> end_idx - start_idx,
                   altitudes     |-> altitudes,
                   speeds        |-> speeds]

\* validate_descent; avg_speed < 2.0 and error_rate > 0.2 without the divisions
validate_descent(segment) ==
    LET errors == Cardinality({k \in 1..(Len(segment.altitudes) - 1) :
                                  segment.altitudes[k] <= segment.altitudes[k + 1]})
    IN  /\ ~(segment.altitude_drop < 10)
        /\ ~(segment.duration < 10 \/ segment.duration > 90)
        /\ ~(Sum(segment.speeds) < 2 * Len(segment.speeds))
        /\ ~(5 * errors > Len(segment.altitudes))

\* the restart index that never moves past the segment's start
main_next_i_at_start(start, end) == start

\* i = end + 1
main_next_i(start, end) == end + 1

\* the pieces record lists are built from, as altitude steps: a 12-record
\* descent, flat riding, a stop, a climb, a descending record at which the
\* turnaround test succeeds, a record without altitude
MaxSegments == 4

Step(d, speed, turnaround, has_altitude) ==
    [d |-> d, speed |-> speed, turnaround |-> turnaround, has_altitude |-> has_altitude]

Pieces ==
    { [k \in 1..12 |-> Step(-2, 3, FALSE, TRUE)],
      [k \in 1..3 |-> Step(0, 3, FALSE, TRUE)],
      [k \in 1..2 |-> Step(0, 0, FALSE, TRUE)],
      [k \in 1..2 |-> Step(2, 3, FALSE, TRUE)],
      <<Step(-2, 3, TRUE, TRUE)>>,
      <<Step(0, 3, FALSE, FALSE)>> }

RECURSIVE Profiles(_)
Profiles(n) ==
    IF n = 0 THEN {<<>>}
    ELSE LET shorter == Profiles(n - 1)
         IN  shorter \cup {p \o c : p \in shorter, c \in Pieces}

\* the record list of a profile: altitudes from 1000 m by the steps
RecordList(profile) ==
    [k \in 1..Len(profile) |->
        [altitude   |-> IF profile[k].has_altitude
                        THEN 1000 + Sum([j \in 1..k |-> profile[j].d])
                        ELSE NoAltitude,
         speed      |-> profile[k].speed,
         turnaround |-> profile[k].turnaround]]

RecordLists == {RecordList(p) : p \in Profiles(MaxSegments)}

\* main() before the loop: records extracted, nothing detected
NoDetection == [status |-> "idle", i |-> 0, start |-> -1, end |-> -1, descents |-> <<>>]

InitDescent ==
    /\ prog = "descent"
    /\ records \in RecordLists
    /\ run = NoDetection
    /\ file_bytes = <<>>
    /\ twin = NoRun
    /\ twin_bytes = <<>>
    /\ crc_data = <<>>

\* descents = []; i = 0
StartDetection ==
    /\ prog = "descent"
    /\ run.status = "idle"
    /\ run' = [run EXCEPT !.status = "loop", !.i = 0, !.descents = <<>>]
    /\ UNCHANGED <<prog, file_bytes, twin, twin_bytes, records, crc_data>>

\* one test of "while i < len(records)" and, when it holds, one pass of the body
DetectionIter ==
    /\ prog = "descent"
    /\ run.status = "loop"
    /\ IF ~(run.i < Len(records)) THEN run' = [run EXCEPT !.status = "done"]
       ELSE LET start == find_descent_start(records, run.i)
            IN  IF start = -1 THEN run' = [run EXCEPT !.status = "done", !.start = -1]
                ELSE LET end     == find_descent_end(records, start)
                         segment == extract_descent_segment(records, start, end)
                     IN  run' = [run EXCEPT
                                   !.start    = start,
                                   !.end      = end,
                                   !.descents = IF segment # NoSegment /\ validate_descent(segment)
                                                THEN Append(@, segment) ELSE @,
                                   !.i        = main_next_i(start, end)]
    /\ UNCHANGED <<prog, file_bytes, twin, twin_bytes, records, crc_data>>

NextDescent == StartDetection \/ DetectionIter

SpecDescent == InitDescent /\ [][NextDescent]_vars

\* C30: in the detection loop of main, on any record list, find_descent_end
\* returns an index greater than the start it is given, the loop index i
\* strictly increases on every pass so the loop ends, and the accepted
\* segments [start, end] are pairwise disjoint and in increasing index order.
C30_DetectionLoop ==
    [][(prog = "descent" /\ run.status = "loop")
          => /\ run'.status = "loop"
                   => /\ run'.end > run'.start
                      /\ run'.start >= run.i
                      /\ run'.i > run.i
                      /\ run'.end < Len(records)
             /\ \A k \in 1..Len(run'.descents) :
                   /\ run'.descents[k].start_idx < run'.descents[k].end_idx
                   /\ k > 1 => run'.descents[k - 1].end_idx < run'.descents[k].start_idx
             /\ run'.status \in {"loop", "done"}]_vars

\* two descents were accepted, the second found after the loop restarted
\* behind the first
C30_Witness ==
    /\ prog = "descent"
    /\ run.status = "done"
    /\ Len(run.descents) = 2
    /\ run.descents[2].start_idx > run.descents[1].end_idx

=============================================================================
